---- MODULE Spec2Model ----
(***************************************************************************)
(* A model of http-micro: the graceful-shutdown connection tracker         *)
(* (src/src/server-utils.ts, ShutdownManager), the middleware composer     *)
(* (src/src/utils.ts, dispatch), the mount point (src/unnamed/part_009,    *)
(* mount) and the router with its route context (src/src/router.ts,        *)
(* src/src/route-context.ts).                                              *)
(***************************************************************************)
EXTENDS Integers, Sequences, FiniteSets, TLC

(***************************************************************************)
(* Bounds of the model.                                                    *)
(***************************************************************************)
\* number of socket handles the transport may hand to the server
MaxSockets == 2
\* requests in flight on one socket at a time (keep-alive pipelining)
MaxInflight == 1
\* number of shutdown(...) calls made on one manager
MaxShutdownCalls == 1

Sockets == 1..MaxSockets
Calls == 1..MaxShutdownCalls

VARIABLES
    \* ---- ShutdownManager fields (server-utils.ts:69-72)
    socketRequestCountMap,  \* Map<net.Socket, number>: a function on its key set
    shutdownRequested,      \* boolean
    shutdownListeners,      \* ShutdownListener[] | null; <<>> stands for null
    \* ---- transport (node http/net), the manager's environment
    sock,                   \* per socket: "fresh", "open", "closing", "closed"
    listening,              \* the server accepts new connections
    inflight,               \* per socket: responses whose 'finish' is still to come
    \* ---- one record per shutdown(gracePeriodMs, callback) call
    call,
    \* ---- observations
    ended,                  \* per socket: socket.end() has been called on it
    destroyed,              \* per socket: socket.destroy() has been called on it
    endedBusy,              \* end()/destroy() was called on a connection with
                            \* requests in flight before any grace timer had fired
    invoked,                \* per call: the arguments its callback was invoked with
    graceElapsed,           \* some grace timer has fired
    \* ---- one request travelling through a middleware pipeline
    stack,                  \* the JavaScript call stack: one frame per function
                            \* that was entered and has not yet returned
    ret,                    \* how the callee that just returned came back: "none",
                            \* "resolved", "rejected" (a promise) or "thrown"
    prog,                   \* the middleware the application was built from
    reqPath,                \* url.parse(req.url).pathname
    method,                 \* req.method
    \* ---- Context fields (context.ts)
    routePath,              \* Context._routePath; <<>> is undefined as well as ""
    routeHandled,           \* Context.routeHandled
    \* ---- RouteContext fields (route-context.ts:4-7)
    pendingRoutePath,       \* RouteContext._pendingRoutePath
    matches,                \* RouteContext._matches
    currentMatch,           \* RouteContext._currentMatch
    matchCount,             \* match objects created so far: object identity
    params,                 \* RouteContext.params
    \* ---- observations
    log,                    \* the middlewares in the order they started to run
    lastExit,               \* the last mount or router invocation that returned
    lastPop,                \* the last RouteContext.pop() and the push it undoes
    \* ---- the request listener of an Application (core.ts:50-65)
    res,                    \* the http.ServerResponse of the request
    app,                    \* what the listener and its handlers have done
    \* ---- a Router under construction (router.ts:181-205)
    definedRoutes,          \* Router._routes
    lastDefine,             \* the last define(...) call and the routes before it
    \* ---- the request body of a Context (context.ts:333, 408-415)
    requestParser,          \* Context.requestParser
    bodyParseTask,          \* Context._bodyParseTask: 0 is null, else a task
    parseTasks,             \* the promises parseBody has returned, in order
    bodyCalls,              \* the getRequestBody calls made: parser, task returned
    \* ---- an Application and the handlers made from it (core.ts:33, 50-71)
    appMiddlewares,         \* Application.middlewares
    handlers,               \* the handlers createHandler has returned
    requests,               \* the requests those handlers were called with
    \* ---- the listeners of a ShutdownManager (server-utils.ts:78-90)
    listenersAttached,      \* its 'connection' and 'request' listeners are on the server
    \* ---- requests one handler serves at the same time (core.ts:50-65)
    reqs,                   \* per request: its input, where it stands, what it saw
    currentIndex,           \* per dispatch invocation: its currentIndex
    routeContexts           \* per Context: the fields of its RouteContext

varsSM == <<socketRequestCountMap, shutdownRequested, shutdownListeners, sock,
            listening, inflight, call, ended, destroyed, endedBusy, invoked,
          graceElapsed>>

varsBody == <<requestParser, bodyParseTask, parseTasks, bodyCalls>>
\* what the shutdown manager, the request pipeline and the router under
\* construction never touch
varsHandler == <<appMiddlewares, handlers, requests>>
varsDestroy == <<listenersAttached>>
varsConcurrent == <<reqs, currentIndex, routeContexts>>
varsOther == <<varsBody, varsHandler, varsDestroy, varsConcurrent>>

varsReq == <<stack, ret, prog, reqPath, method, routePath, routeHandled,
             pendingRoutePath, matches, currentMatch, matchCount, params, log,
             lastExit, lastPop, res, app, definedRoutes, lastDefine, varsOther>>

varsApp == <<res, app>>
varsDef == <<definedRoutes, lastDefine>>

vars == <<socketRequestCountMap, shutdownRequested, shutdownListeners, sock,
          listening, inflight, call, ended, destroyed, endedBusy, invoked,
          graceElapsed, stack, ret, prog, reqPath, method, routePath,
          routeHandled, pendingRoutePath, matches, currentMatch, matchCount,
          params, log, lastExit, lastPop, res, app, definedRoutes, lastDefine,
          requestParser, bodyParseTask, parseTasks, bodyCalls,
          appMiddlewares, handlers, requests, listenersAttached, reqs,
          currentIndex, routeContexts>>

(***************************************************************************)
(* JavaScript numbers as the map holds them: an integer or NaN.            *)
(* map.get(k) of a missing key is undefined, and undefined +/- 1 is NaN.   *)
(***************************************************************************)
Num(n) == [isNaN |-> FALSE, n |-> n]
NaN == [isNaN |-> TRUE, n |-> 0]
JsAdd(v, d) == IF v.isNaN THEN NaN ELSE Num(v.n + d)
\* v === 0
IsZero(v) == ~v.isNaN /\ v.n = 0

MapSet(m, k, v) == [x \in (DOMAIN m) \cup {k} |-> IF x = k THEN v ELSE m[x]]
MapDelete(m, k) == [x \in (DOMAIN m) \ {k} |-> m[x]]
\* map.get(k) + d
MapGetPlus(m, k, d) == IF k \in DOMAIN m THEN JsAdd(m[k], d) ELSE NaN
MapSize(m) == Cardinality(DOMAIN m)
EmptyMap == [x \in {} |-> NaN]

\* server._connections === 0: no connection is open at the transport level
Drained == \A s \in Sockets : sock[s] # "open"

NoCall == [phase |-> "idle", finite |-> FALSE, timer |-> "none", busyAtGrace |-> FALSE]

\* values that stand for "no such object"
NoNode == [kind |-> "none"]
NoMatch == [id |-> 0]
NoExit == [kind |-> "none"]
NoPop == [done |-> FALSE]
\* RouteContext.params = null
NoParams == [null |-> TRUE, entries |-> <<>>]

\* no request is being handled
\* a response nothing was written to
NewResponse ==
    [finished |-> FALSE, headersSent |-> FALSE, statusCode |-> 200,
     sent |-> 0]         \* the status code of the head that was written
NoListener == [kind |-> "none"]
NoDefine == [done |-> FALSE]
\* no request listener is running
NoApplication ==
    /\ res = NewResponse
    /\ app = NoListener
\* no request body has been asked for
NoBody ==
    /\ requestParser = "none"
    /\ bodyParseTask = 0
    /\ parseTasks = <<>>
    /\ bodyCalls = <<>>
\* an Application nothing was added to and no handler was made from
NoHandler ==
    /\ appMiddlewares = <<>>
    /\ handlers = <<>>
    /\ requests = <<>>
\* the constructor has attached the listeners
NoDestroy == listenersAttached = TRUE
\* no request is being served by a handler
NoConcurrent ==
    /\ reqs = <<>>
    /\ currentIndex = <<>>
    /\ routeContexts = <<>>
NoOther == NoBody /\ NoHandler /\ NoDestroy /\ NoConcurrent
\* no router is being built
NoRouter ==
    /\ definedRoutes = <<>>
    /\ lastDefine = NoDefine

NoPipeline ==
    /\ stack = <<>>
    /\ ret = "none"
    /\ prog = NoNode
    /\ reqPath = <<>>
    /\ method = "GET"
    /\ routePath = <<>>
    /\ routeHandled = FALSE
    /\ pendingRoutePath = <<>>
    /\ matches = <<>>
    /\ currentMatch = NoMatch
    /\ matchCount = 0
    /\ params = NoParams
    /\ log = <<>>
    /\ lastExit = NoExit
    /\ lastPop = NoPop
    /\ NoApplication
    /\ NoRouter

\* no request is being handled and nothing else is going on
NoRequest == NoPipeline /\ NoOther

\* the fields of a new ShutdownManager and of the transport under it
InitManager ==
    /\ socketRequestCountMap = EmptyMap
    /\ shutdownRequested = FALSE
    /\ shutdownListeners = <<>>
    /\ sock = [s \in Sockets |-> "fresh"]
    /\ listening = TRUE
    /\ inflight = [s \in Sockets |-> 0]
    /\ call = [c \in Calls |-> NoCall]
    /\ ended = [s \in Sockets |-> FALSE]
    /\ destroyed = [s \in Sockets |-> FALSE]
    /\ endedBusy = FALSE
    /\ invoked = [c \in Calls |-> <<>>]
    /\ graceElapsed = FALSE

\* new ShutdownManager(server), with no request in the pipeline
InitSM ==
    /\ InitManager
    /\ NoRequest

\* the connections of S whose count in m is not 0
Busy(S, m) == {s \in S : s \in DOMAIN m /\ ~IsZero(m[s])}

\* socket.end() on every socket of S, while the map is m; afterGrace: a grace
\* timer has fired
endSockets(S, m, afterGrace) ==
    /\ ended' = [s \in Sockets |-> ended[s] \/ s \in S]
    /\ endedBusy' = (endedBusy \/ (Busy(S, m) # {} /\ ~afterGrace))

\* callback(isForcedExit) of shutdown call c, invoked while the map is m
Invocation(forced, m) == [isForcedExit |-> forced, mapSize |-> MapSize(m)]

RECURSIVE InvokeAll(_, _, _, _)
\* for (i < len) listeners[i](isForcedExit)
InvokeAll(listeners, forced, m, inv) ==
    IF listeners = <<>> THEN inv
    ELSE InvokeAll(Tail(listeners), forced, m,
                   [inv EXCEPT ![Head(listeners)] = Append(@, Invocation(forced, m))])

\* as _invokeAndResetShutdownListeners, the list left in place
invokeWithoutReset(forced, m) ==
    /\ shutdownListeners' = shutdownListeners
    /\ invoked' = InvokeAll(shutdownListeners, forced, m, invoked)

\* _invokeAndResetShutdownListeners(isForcedExit), run while the map is m
invokeAndResetShutdownListeners(forced, m) ==
    /\ shutdownListeners' = <<>>
    /\ invoked' = InvokeAll(shutdownListeners, forced, m, invoked)

\* _pushListener(listener)
pushListener(c) == shutdownListeners' = Append(shutdownListeners, c)

(***************************************************************************)
(* shutdown(gracePeriodMs, callback): everything is deferred by            *)
(* setImmediate. finite: gracePeriodMs < Infinity. Every call supplies a   *)
(* callback.                                                               *)
(***************************************************************************)
shutdown(c, finite) ==
    /\ call[c].phase = "idle"
    /\ \A d \in Calls : d < c => call[d].phase # "idle"
    /\ call' = [call EXCEPT ![c] = [phase |-> "immediate", finite |-> finite,
                                    timer |-> "none", busyAtGrace |-> FALSE]]
    /\ UNCHANGED <<socketRequestCountMap, shutdownRequested, shutdownListeners, sock,
                   listening, inflight, ended, destroyed, endedBusy, invoked,
                   graceElapsed>>
    /\ UNCHANGED varsReq

\* as shutdownImmediate, with socket.end() on every connection, idle or not
shutdownImmediateEndAll(c) ==
    /\ call[c].phase = "immediate"
    /\ listening' = FALSE
    /\ shutdownRequested' = TRUE
    /\ call' = [call EXCEPT ![c].phase = "closing",
                            ![c].timer = IF call[c].finite THEN "armed" ELSE "none"]
    /\ endSockets(DOMAIN socketRequestCountMap, socketRequestCountMap, graceElapsed)
    /\ UNCHANGED <<socketRequestCountMap, shutdownListeners, sock, inflight, destroyed,
                   invoked, graceElapsed>>
    /\ UNCHANGED varsReq

\* the setImmediate body of shutdown: server.close(cb), the flag, the timer,
\* and socket.end() on every idle connection
shutdownImmediate(c) ==
    /\ call[c].phase = "immediate"
    /\ listening' = FALSE
    /\ shutdownRequested' = TRUE
    /\ call' = [call EXCEPT ![c].phase = "closing",
                            ![c].timer = IF call[c].finite THEN "armed" ELSE "none"]
    /\ endSockets({s \in DOMAIN socketRequestCountMap :
                      IsZero(socketRequestCountMap[s])}, socketRequestCountMap,
                  graceElapsed)
    /\ UNCHANGED <<socketRequestCountMap, shutdownListeners, sock, inflight, destroyed,
                   invoked, graceElapsed>>
    /\ UNCHANGED varsReq

\* as serverCloseCallback, the callback invoked whatever the size of the map
serverCloseCallbackNoSizeCheck(c) ==
    /\ call[c].phase = "closing"
    /\ Drained
    /\ call' = [call EXCEPT ![c].phase = "done"]
    /\ invoked' = [invoked EXCEPT
          ![c] = Append(@, Invocation(FALSE, socketRequestCountMap))]
    /\ UNCHANGED <<socketRequestCountMap, shutdownRequested, shutdownListeners, sock,
                   listening, inflight, ended, destroyed, endedBusy, graceElapsed>>
    /\ UNCHANGED varsReq

\* as serverCloseCallback, the callback not kept when the map is not empty
serverCloseCallbackNoPush(c) ==
    /\ call[c].phase = "closing"
    /\ Drained
    /\ call' = [call EXCEPT ![c].phase = "done"]
    /\ IF MapSize(socketRequestCountMap) = 0
       THEN invoked' = [invoked EXCEPT
                   ![c] = Append(@, Invocation(FALSE, socketRequestCountMap))]
       ELSE UNCHANGED invoked
    /\ UNCHANGED <<socketRequestCountMap, shutdownRequested, shutdownListeners, sock,
                   listening, inflight, ended, destroyed, endedBusy, graceElapsed>>
    /\ UNCHANGED varsReq

\* the callback given to server.close: node runs it on the server's 'close'
\* event, which is emitted once the server has stopped listening and no
\* connection is left open
serverCloseCallback(c) ==
    /\ call[c].phase = "closing"
    /\ Drained
    /\ call' = [call EXCEPT ![c].phase = "done"]
    /\ IF MapSize(socketRequestCountMap) = 0
       THEN /\ invoked' = [invoked EXCEPT
                   ![c] = Append(@, Invocation(FALSE, socketRequestCountMap))]
            /\ UNCHANGED shutdownListeners
       ELSE /\ pushListener(c)
            /\ UNCHANGED invoked
    /\ UNCHANGED <<socketRequestCountMap, shutdownRequested, sock, listening, inflight,
                   ended, destroyed, endedBusy, graceElapsed>>
    /\ UNCHANGED varsReq

\* _onConnection(socket)
onConnection(s) ==
    /\ listenersAttached
    /\ listening
    /\ sock[s] = "fresh"
    /\ \A t \in Sockets : t < s => sock[t] # "fresh"
    /\ sock' = [sock EXCEPT ![s] = "open"]
    /\ socketRequestCountMap' = MapSet(socketRequestCountMap, s, Num(0))
    /\ UNCHANGED <<shutdownRequested, shutdownListeners, listening, inflight, call,
                   ended, destroyed, endedBusy, invoked,
                   graceElapsed>>
    /\ UNCHANGED varsReq

\* the transport closes the connection: the peer went away, or the socket was
\* ended or destroyed; the socket's 'close' event is still to be delivered
transportClose(s) ==
    /\ sock[s] = "open"
    /\ sock' = [sock EXCEPT ![s] = "closing"]
    /\ UNCHANGED <<socketRequestCountMap, shutdownRequested, shutdownListeners,
                   listening, inflight, call, ended, destroyed, endedBusy, invoked,
          graceElapsed>>
    /\ UNCHANGED varsReq

\* _onSocketClose(socket), the socket's 'close' listener; the responses still
\* in flight on the socket are abandoned by the transport
onSocketClose(s) ==
    /\ sock[s] = "closing"
    /\ sock' = [sock EXCEPT ![s] = "closed"]
    /\ inflight' = [inflight EXCEPT ![s] = 0]
    /\ socketRequestCountMap' = MapDelete(socketRequestCountMap, s)
    /\ IF shutdownRequested /\ MapSize(socketRequestCountMap') = 0
       THEN invokeAndResetShutdownListeners(FALSE, socketRequestCountMap')
       ELSE UNCHANGED <<shutdownListeners, invoked>>
    /\ UNCHANGED <<shutdownRequested, listening, call, ended, destroyed, endedBusy,
                   graceElapsed>>
    /\ UNCHANGED varsReq

\* as onRequest, the count left as it was
onRequestNoCount(s) ==
    /\ sock[s] = "open"
    /\ inflight[s] < MaxInflight
    /\ inflight' = [inflight EXCEPT ![s] = @ + 1]
    /\ UNCHANGED <<socketRequestCountMap, shutdownRequested, shutdownListeners, sock,
                   listening, call, ended, destroyed, endedBusy, invoked, graceElapsed>>
    /\ UNCHANGED varsReq

\* _onRequest(req, res)
onRequest(s) ==
    /\ listenersAttached
    /\ sock[s] = "open"
    /\ inflight[s] < MaxInflight
    /\ socketRequestCountMap' =
          MapSet(socketRequestCountMap, s, MapGetPlus(socketRequestCountMap, s, 1))
    /\ inflight' = [inflight EXCEPT ![s] = @ + 1]
    /\ UNCHANGED <<shutdownRequested, shutdownListeners, sock, listening, call,
                   ended, destroyed, endedBusy, invoked,
                   graceElapsed>>
    /\ UNCHANGED varsReq

\* as onResponseFinished, the idle connection never ended
onResponseFinishedNoEnd(s) ==
    /\ inflight[s] > 0
    /\ sock[s] \in {"open", "closing"}
    /\ inflight' = [inflight EXCEPT ![s] = @ - 1]
    /\ socketRequestCountMap' =
          MapSet(socketRequestCountMap, s, MapGetPlus(socketRequestCountMap, s, -1))
    /\ UNCHANGED <<shutdownRequested, shutdownListeners, sock, listening, call,
                   ended, destroyed, endedBusy, invoked, graceElapsed>>
    /\ UNCHANGED varsReq

\* _onResponseFinished(socket), the response's 'finish' listener
onResponseFinished(s) ==
    /\ inflight[s] > 0
    /\ sock[s] \in {"open", "closing"}
    /\ inflight' = [inflight EXCEPT ![s] = @ - 1]
    /\ LET pending == MapGetPlus(socketRequestCountMap, s, -1)
           m == MapSet(socketRequestCountMap, s, pending)
       IN /\ socketRequestCountMap' = m
          /\ IF shutdownRequested /\ IsZero(pending)
             THEN endSockets({s}, m, graceElapsed)
             ELSE UNCHANGED <<ended, endedBusy>>
    /\ UNCHANGED <<shutdownRequested, shutdownListeners, sock, listening, call,
                   destroyed, invoked, graceElapsed>>
    /\ UNCHANGED varsReq

\* _destroySockets(), run by the grace timer: socket.end() on every connection
destroySockets(c) ==
    /\ call[c].timer = "armed"
    /\ call' = [call EXCEPT
          ![c].timer = "immediate",
          ![c].busyAtGrace =
              Busy(DOMAIN socketRequestCountMap, socketRequestCountMap) # {}]
    /\ graceElapsed' = TRUE
    /\ endSockets(DOMAIN socketRequestCountMap, socketRequestCountMap, TRUE)
    /\ UNCHANGED <<socketRequestCountMap, shutdownRequested, shutdownListeners, sock,
                   listening, inflight, destroyed, invoked>>
    /\ UNCHANGED varsReq

\* the setImmediate body of _destroySockets: socket.destroy() on every
\* connection, then the pending listeners with isForcedExit = true
destroySocketsImmediate(c) ==
    /\ call[c].timer = "immediate"
    /\ call' = [call EXCEPT ![c].timer = "done"]
    /\ sock' = [s \in Sockets |->
                  IF s \in DOMAIN socketRequestCountMap /\ sock[s] = "open"
                  THEN "closing" ELSE sock[s]]
    /\ destroyed' = [s \in Sockets |->
                       destroyed[s] \/ s \in DOMAIN socketRequestCountMap]
    /\ endedBusy' = (endedBusy \/
                       (Busy(DOMAIN socketRequestCountMap, socketRequestCountMap) # {}
                           /\ ~graceElapsed))
    /\ invokeAndResetShutdownListeners(TRUE, socketRequestCountMap)
    /\ UNCHANGED <<socketRequestCountMap, shutdownRequested, listening, inflight,
                   ended, graceElapsed>>
    /\ UNCHANGED varsReq

NextSM ==
    \/ \E c \in Calls, finite \in BOOLEAN : shutdown(c, finite)
    \/ \E c \in Calls : shutdownImmediate(c)
    \/ \E c \in Calls : serverCloseCallback(c)
    \/ \E s \in Sockets : onConnection(s)
    \/ \E s \in Sockets : transportClose(s)
    \/ \E s \in Sockets : onSocketClose(s)
    \/ \E s \in Sockets : onRequest(s)
    \/ \E s \in Sockets : onResponseFinished(s)
    \/ \E c \in Calls : destroySockets(c)
    \/ \E c \in Calls : destroySocketsImmediate(c)

SpecSM == InitSM /\ [][NextSM]_vars

\* the transport reports the close of a socket that was ended or destroyed
reportedClose(s) == (ended[s] \/ destroyed[s]) /\ transportClose(s)

\* what the event loop and the transport are bound to do: a setImmediate
\* callback runs, an armed timer fires, an ended or destroyed socket closes,
\* a 'close' event is delivered, a closed server reports its close. When a
\* connection or a request arrives, whether a response ever finishes and
\* whether shutdown is called is up to the peers and the application.
FairnessSM ==
    /\ \A c \in Calls : /\ WF_vars(shutdownImmediate(c))
                        /\ WF_vars(destroySockets(c))
                        /\ WF_vars(destroySocketsImmediate(c))
                        /\ WF_vars(serverCloseCallback(c))
    /\ \A s \in Sockets : /\ WF_vars(reportedClose(s))
                          /\ WF_vars(onSocketClose(s))

SpecSMFair == InitSM /\ [][NextSM]_vars /\ FairnessSM

(***************************************************************************)
(* The request pipeline. A string is a sequence of one-character strings.  *)
(***************************************************************************)
\* longest request path, in characters
MaxPathLen == 4
\* longest list of middlewares handed to dispatch
MaxMiddlewares == 3

Chars == {"/", "a", "%"}
\* url.parse(req.url).pathname of a request: it begins with "/"
Paths == {p \in UNION {[1..n -> Chars] : n \in 1..MaxPathLen} : p[1] = "/"}
Methods == {"GET", "HEAD", "POST"}
\* HttpMethod.Wildcard
Wildcard == "*"

\* s.startsWith(p)
StartsWith(s, p) == Len(p) <= Len(s) /\ SubSeq(s, 1, Len(p)) = p
\* s.slice(n), n >= 0
Slice(s, n) == SubSeq(s, n + 1, Len(s))

(***************************************************************************)
(* Regular expressions of the three shapes routes are given in. A RegExp   *)
(* is a record: the literal text lit, then, if param, one "([^\/]+?)"      *)
(* group; anchored: a leading "^"; boundary: a trailing "(?=\/|$)";        *)
(* endAnchor: a trailing "$".                                              *)
(***************************************************************************)
\* as StringRoute, without the look-ahead for a delimiter or the end
StringRoutePrefix(lit) ==
    [lit |-> lit, anchored |-> TRUE, param |-> FALSE, boundary |-> FALSE,
     endAnchor |-> FALSE, flags |-> ""]

\* pathToRegexp(lit, keys, Router.Defaults): strict, end: false
StringRoute(lit) ==
    [lit |-> lit, anchored |-> TRUE, param |-> FALSE,
     boundary |-> lit[Len(lit)] # "/", endAnchor |-> FALSE, flags |-> ""]
\* pathToRegexp(lit + ":id", keys, Router.Defaults)
ParamRoute(lit) ==
    [lit |-> lit, anchored |-> TRUE, param |-> TRUE, boundary |-> TRUE,
     endAnchor |-> FALSE, flags |-> ""]
\* a RegExp written by the application, /lit$/
SuffixRegExp(lit) ==
    [lit |-> lit, anchored |-> FALSE, param |-> FALSE, boundary |-> FALSE,
     endAnchor |-> TRUE, flags |-> ""]

\* the number of characters other than "/" that s has from position j on
SegLen(s, j) ==
    Cardinality({k \in 1..(Len(s) - j + 1) : \A x \in j..(j + k - 1) : s[x] # "/"})

\* the length of the match of rx that starts at position i of s, or -1
MatchAt(rx, s, i) ==
    LET n == Len(rx.lit)
        j == i + n
        seg == IF rx.param THEN SegLen(s, j) ELSE 0
        e == j + seg
    IN IF /\ j - 1 <= Len(s)
          /\ SubSeq(s, i, j - 1) = rx.lit
          /\ rx.param => seg >= 1
          /\ rx.boundary => (e > Len(s) \/ s[e] = "/")
          /\ rx.endAnchor => e > Len(s)
       THEN n + seg ELSE -1

\* s.match(rx): the leftmost match; text is match[0], capture is match[1]
RegExpMatch(rx, s) ==
    LET starts == IF rx.anchored THEN {1} ELSE 1..(Len(s) + 1)
        hits == {i \in starts : MatchAt(rx, s, i) >= 0}
    IN IF hits = {} THEN [ok |-> FALSE]
       ELSE LET i == CHOOSE h \in hits : \A g \in hits : h <= g
                len == MatchAt(rx, s, i)
            IN [ok |-> TRUE, index |-> i - 1,
                text |-> SubSeq(s, i, i + len - 1),
                capture |-> SubSeq(s, i + Len(rx.lit), i + len - 1)]

\* the hexadecimal digits of the alphabets used here
HexDigits == {"0", "2", "a"}
\* the character with code 0x h1 h2, for h1 in {"0", "2"}: an ASCII character
\* ("NUL", "STX" and "LF" stand for the control characters)
ByteChar(h1, h2) ==
    CASE h1 = "2" /\ h2 = "0" -> " "
      [] h1 = "2" /\ h2 = "2" -> "\""
      [] h1 = "2" /\ h2 = "a" -> "*"
      [] h1 = "0" /\ h2 = "0" -> "NUL"
      [] h1 = "0" /\ h2 = "2" -> "STX"
      [] OTHER -> "LF"

RECURSIVE DecodeFrom(_, _)
\* decodeURIComponent of s from position i on: "%" must be followed by two
\* hexadecimal digits; a byte below 0x80 is its ASCII character; a byte
\* 0xa0..0xaf is a UTF-8 continuation byte, which cannot start a character
DecodeFrom(s, i) ==
    IF i > Len(s) THEN [ok |-> TRUE, value |-> <<>>]
    ELSE IF s[i] # "%"
    THEN LET r == DecodeFrom(s, i + 1)
         IN [ok |-> r.ok, value |-> IF r.ok THEN <<s[i]>> \o r.value ELSE <<>>]
    ELSE IF \/ i + 2 > Len(s)
            \/ s[i + 1] \notin HexDigits
            \/ s[i + 2] \notin HexDigits
            \/ s[i + 1] = "a"
    THEN [ok |-> FALSE, value |-> <<>>]
    ELSE LET r == DecodeFrom(s, i + 3)
         IN [ok |-> r.ok,
             value |-> IF r.ok THEN <<ByteChar(s[i + 1], s[i + 2])>> \o r.value
                       ELSE <<>>]

\* decodeURIComponent(s); ok is FALSE when it throws URIError
decodeURIComponent(s) == DecodeFrom(s, 1)

\* decodeRouteParam(param) throws createError(400)
DecodeFails(param) == ~decodeURIComponent(param).ok

\* as decodeRouteParam, without the decoding
decodeRouteParamRaw(param) == param

\* decodeRouteParam(param), when it does not throw
decodeRouteParam(param) == decodeURIComponent(param).value

\* createRouteParams(match, keys) for the capture of a match: a list of
\* name and value, empty when there are no keys or the group is empty
createRouteParams(capture, paramKeys) ==
    IF paramKeys > 0 /\ Len(capture) > 0
    THEN <<[name |-> "id", value |-> decodeRouteParam(capture)]>>
    ELSE <<>>

(***************************************************************************)
(* Middlewares. A middleware is a record that says how it was built.       *)
(***************************************************************************)
\* a middleware written by the application
User(i) == [kind |-> "user", id |-> i]
\* a middleware that calls its next twice:
\* async (ctx, next) => { await next(); return next(); }
Again(i) == [kind |-> "again", id |-> i]
\* compose(...list) of utils.ts: (context, next) => dispatch(context, next, list)
Chain(list) == [kind |-> "chain", list |-> list]
\* compose(...list) of the version mount was written against (part_009)
Compose(list) == [kind |-> "compose", list |-> list]
\* mount(path, target)
Mount(path, target) == [kind |-> "mount", path |-> path, target |-> target]
\* new RouteDefinition(handler, paramKeys); paramKeys is the number of keys,
\* -1 for null
RouteDefinition(handler, paramKeys) == [handler |-> handler, paramKeys |-> paramKeys]
\* new RouteDescriptor(test, definitions)
RouteDescriptor(test, definitions) == [test |-> test, definitions |-> definitions]
\* a Router after its define/use calls, built
Router(routes, middlewares) ==
    [kind |-> "router", routes |-> routes, middlewares |-> middlewares,
     exhaustive |-> FALSE]

\* as MethodResult, the wildcard definition tried first
MethodResultWildcardFirst(definitions, m) ==
    IF Wildcard \in DOMAIN definitions THEN Wildcard
    ELSE IF m \in DOMAIN definitions THEN m
    ELSE IF m = "HEAD" /\ "GET" \in DOMAIN definitions THEN "GET"
    ELSE "none"

\* x.definitions[method], then the GET definition for HEAD, then the wildcard
MethodResult(definitions, m) ==
    IF m \in DOMAIN definitions THEN m
    ELSE IF m = "HEAD" /\ "GET" \in DOMAIN definitions THEN "GET"
    ELSE IF Wildcard \in DOMAIN definitions THEN Wildcard
    ELSE "none"

RECURSIVE MatchFrom(_, _, _, _)
\* the loop of Router._match from index i on; thrown: createRouteParams threw
MatchFrom(router, i, m, targetPath) ==
    IF i > Len(router.routes) THEN [found |-> FALSE, thrown |-> FALSE]
    ELSE LET x == router.routes[i]
             match == RegExpMatch(x.test, targetPath)
             key == MethodResult(x.definitions, m)
         IN IF ~match.ok THEN MatchFrom(router, i + 1, m, targetPath)
            ELSE IF key # "none"
                 THEN IF x.definitions[key].paramKeys > 0 /\ DecodeFails(match.capture)
                      THEN [found |-> FALSE, thrown |-> TRUE]
                      ELSE [found |-> TRUE, thrown |-> FALSE, path |-> match.text,
                            route |-> x.definitions[key], descriptor |-> i,
                            params |-> createRouteParams(match.capture,
                                           x.definitions[key].paramKeys)]
            ELSE IF router.exhaustive THEN [found |-> FALSE, thrown |-> FALSE]
            ELSE MatchFrom(router, i + 1, m, targetPath)

\* router.match(path, method)
Match(router, m, path) == MatchFrom(router, 1, m, path)

(***************************************************************************)
(* The applications a request is run through.                              *)
(***************************************************************************)
\* compose(u1, ..., uk), k = 0 .. MaxMiddlewares, in both versions of compose
ChainPrograms ==
    {Chain([i \in 1..k |-> User(i)]) : k \in 0..MaxMiddlewares}
    \cup {Compose([i \in 1..k |-> User(i)]) : k \in 0..MaxMiddlewares}

\* lists in which one middleware calls its next a second time, after the
\* middlewares behind it have run
AgainLists ==
    {<<Again(1), User(2)>>, <<Again(1), User(2), User(3)>>,
     <<User(2), Again(1)>>, <<User(2), Again(1), User(3)>>}
AgainPrograms == {Chain(l) : l \in AgainLists} \cup {Compose(l) : l \in AgainLists}

MountPaths == {<<"/">>, <<"/", "a">>, <<"/", "a", "/">>}
\* a mount, a mount inside a mount, a mount followed by a middleware
MountPrograms ==
    {Mount(p, User(1)) : p \in MountPaths}
    \cup {Mount(p, Mount(q, User(1))) : p \in MountPaths, q \in MountPaths}
    \cup {Compose(<<Mount(p, User(1)), User(2)>>) : p \in MountPaths}

\* router.get("/:id", u1)
ParamRouter ==
    Router(<<RouteDescriptor(ParamRoute(<<"/">>),
                             "GET" :> RouteDefinition(User(1), 1))>>, <<>>)
\* router.get("/a", u1).any("/a", u2): one descriptor, two definitions
MethodRouter ==
    Router(<<RouteDescriptor(StringRoute(<<"/", "a">>),
                             ("GET" :> RouteDefinition(User(1), 0))
                             @@ (Wildcard :> RouteDefinition(User(2), 0)))>>, <<>>)
\* router.post("/a", u1).get("/:id", u2): both patterns match "/a"
OrderRouter ==
    Router(<<RouteDescriptor(StringRoute(<<"/", "a">>),
                             "POST" :> RouteDefinition(User(1), 0)),
             RouteDescriptor(ParamRoute(<<"/">>),
                             "GET" :> RouteDefinition(User(2), 1))>>, <<>>)
\* router.get("/a", u1).get("/aa", u2): the second path extends the first
HelloRouter ==
    Router(<<RouteDescriptor(StringRoute(<<"/", "a">>),
                             "GET" :> RouteDefinition(User(1), 0)),
             RouteDescriptor(StringRoute(<<"/", "a", "a">>),
                             "GET" :> RouteDefinition(User(2), 0))>>, <<>>)
RouterPrograms ==
    { \* router.get("/a", u1)
      Router(<<RouteDescriptor(StringRoute(<<"/", "a">>),
                               "GET" :> RouteDefinition(User(1), 0))>>, <<>>),
      \* router.use(u2).get("/a", u1)
      Router(<<RouteDescriptor(StringRoute(<<"/", "a">>),
                               "GET" :> RouteDefinition(User(1), 0))>>,
             <<User(2)>>),
      \* router.use("/a", new Router().get("/:id", u1))
      Router(<<RouteDescriptor(StringRoute(<<"/", "a">>),
                               Wildcard :> RouteDefinition(ParamRouter, 0))>>, <<>>),
      \* router.get(/a$/, u1)
      Router(<<RouteDescriptor(SuffixRegExp(<<"a">>),
                               "GET" :> RouteDefinition(User(1), -1))>>, <<>>),
      MethodRouter, OrderRouter, HelloRouter }

\* router.get("/a", u1)
PlainRouter ==
    Router(<<RouteDescriptor(StringRoute(<<"/", "a">>),
                             "GET" :> RouteDefinition(User(1), 0))>>, <<>>)
\* router.use(u2).use(u3).get("/:id", u1)
MiddlewareRouter ==
    Router(<<RouteDescriptor(ParamRoute(<<"/">>),
                             "GET" :> RouteDefinition(User(1), 1))>>,
           <<User(2), User(3)>>)
\* a router behind an application middleware, which may mark the route as
\* handled, and a router with middlewares of its own
\* router.use(u2).use("/a", new Router().get("/:id", u1))
GuardedNest ==
    Router(<<RouteDescriptor(StringRoute(<<"/", "a">>),
                             Wildcard :> RouteDefinition(ParamRouter, 0))>>,
           <<User(2)>>)
GuardedRouterPrograms ==
    {Chain(<<User(2), PlainRouter>>), MiddlewareRouter, GuardedNest}

\* router.use("/:id", new Router().get("/:id", u1)), followed by u2
ParamNest ==
    Router(<<RouteDescriptor(ParamRoute(<<"/">>),
                             Wildcard :> RouteDefinition(ParamRouter, 1))>>, <<>>)
ParamsPrograms == {Chain(<<ParamNest, User(2)>>)}
\* the requests /a/aa and /aa/a
ParamsPaths == {<<"/", "a", "/", "a", "a">>, <<"/", "a", "a", "/", "a">>}

\* the nested chain of the playground and of the routed example, "/chain"
\* written "/a", "/c1" written "/aa" and "/hello" written "/aaa":
\* router2.get("/hello", u1)
Router2 ==
    Router(<<RouteDescriptor(StringRoute(<<"/", "a", "a", "a">>),
                             "GET" :> RouteDefinition(User(1), 0))>>, <<>>)
\* router.use("/chain", chain), chain.use("/c1", router2)
NestedRouters ==
    Router(<<RouteDescriptor(StringRoute(<<"/", "a">>),
        Wildcard :> RouteDefinition(
            Router(<<RouteDescriptor(StringRoute(<<"/", "a", "a">>),
                                     Wildcard :> RouteDefinition(Router2, 0))>>,
                   <<>>), 0))>>, <<>>)
\* mount("/chain", mount("/c1", router2))
NestedMounts == Mount(<<"/", "a">>, Mount(<<"/", "a", "a">>, Router2))
NestedPrograms == {NestedRouters, NestedMounts}
\* the request /chain/c1/hello
NestedPath == <<"/", "a", "/", "a", "a", "/", "a", "a", "a">>

Programs ==
    ChainPrograms \cup MountPrograms \cup RouterPrograms \cup GuardedRouterPrograms
    \cup NestedPrograms \cup ParamsPrograms

(***************************************************************************)
(* The call stack. A frame is one function that was entered: t says which  *)
(* function, node the middleware it belongs to, next the `next` argument   *)
(* it was given, owner the frame whose local variables a closure reads and *)
(* writes, pc where it stands, the rest are its local variables. Functions *)
(* are called and return in stack order, so ret is always read by the      *)
(* frame on top.                                                           *)
(***************************************************************************)
\* a function value that can be passed as `next`: closure k of frame f, which
\* has captured the index i
ContAt(k, f, i) == [k |-> k, f |-> f, i |-> i]
Cont(k, f) == ContAt(k, f, 0)
\* the `next` the application passes to its outermost middleware
Terminal == Cont("terminal", 0)

NewFrame(t, node, next, owner, list) ==
    [t |-> t, node |-> node, next |-> next, owner |-> owner, pc |-> "start",
     list |-> list,      \* dispatch: middlewares
     idx |-> 0,          \* dispatch: currentIndex; old dispatch: index
     saved |-> <<>>,     \* mount: routePath; router: the pending path at entry
     latch |-> FALSE,    \* mount: isRoutePathReset; router: isMatchReset
     match |-> NoMatch,  \* router: match
     resets |-> 0,       \* observation: restoring assignments / pops it made
     depth |-> 0,        \* observation: matches on the route context at entry
     cur |-> NoMatch]    \* observation: current match at entry

\* node(context, next) is called
CallFrame(node, next) ==
    NewFrame(node.kind, node, next, 0,
             IF node.kind \in {"chain", "compose"} THEN node.list ELSE <<>>)
\* dispatch(context, next, list) is called
DispatchFrame(list, next) == NewFrame("chain", NoNode, next, 0, list)
\* c() is called, c a `next` function
ContFrame(c) == [NewFrame(c.k, NoNode, Terminal, c.f, <<>>) EXCEPT !.idx = c.i]

Top == stack[Len(stack)]
At(t, pc) == Len(stack) > 0 /\ Top.t = t /\ Top.pc = pc
Leave(st) == SubSeq(st, 1, Len(st) - 1)
\* the top frame, now f, moves to pc and calls: frame g is entered
Enter(st, f, pc, g) == Append([st EXCEPT ![Len(st)] = [f EXCEPT !.pc = pc]], g)

\* frame o is not inside another invocation of the same kind that matched
Outermost(o) ==
    \A i \in 1..(o - 1) : ~(stack[i].t = stack[o].t /\ stack[i].pc = "called")

mountCtx == <<routePath, routeHandled>>
routeCtx == <<pendingRoutePath, matches, currentMatch, matchCount, lastPop, params>>
fixedReq == <<prog, reqPath, method>>

\* a request arrives: new Context(...), new RouteContext(pathname), and the
\* application's middleware is called with the terminal next
InitReq ==
    /\ InitManager
    /\ prog \in Programs
    \* only mounts and routers read the path, only routers the method
    /\ reqPath \in IF prog \in ChainPrograms THEN {<<"/">>}
                   ELSE IF prog \in NestedPrograms THEN {NestedPath}
                   ELSE IF prog \in ParamsPrograms THEN ParamsPaths ELSE Paths
    /\ method \in IF prog \in RouterPrograms THEN Methods ELSE {"GET"}
    /\ stack = <<CallFrame(prog, Terminal)>>
    /\ ret = "none"
    /\ routePath = <<>>
    /\ routeHandled = FALSE
    /\ pendingRoutePath = reqPath
    /\ matches = <<>>
    /\ currentMatch = NoMatch
    /\ matchCount = 0
    /\ params = NoParams
    /\ log = <<>>
    /\ lastExit = NoExit
    /\ lastPop = NoPop
    /\ NoApplication
    /\ NoRouter
    /\ NoOther

\* what a middleware of the application may do
Behaviours == {"resolve", "reject", "throw", "next", "awaitNext", "markNext"}
\* those in which it calls next
NextBehaviours == {"next", "awaitNext", "markNext"}

\* an application middleware starts to run and
\*   resolve:   returns a resolved promise         reject: a rejected one
\*   throw:     throws before returning a promise
\*   next:      return next()
\*   awaitNext: is async and does `await next()`
\*   markNext:  context.markRouteHandled(); return next()
userStart(b) ==
    /\ At("user", "start")
    /\ log' = Append(log, [id |-> Top.node.id, beh |-> b])
    /\ IF b \in NextBehaviours
       THEN /\ stack' = Enter(stack, Top, IF b = "awaitNext" THEN "await" ELSE "tail",
                              ContFrame(Top.next))
            /\ UNCHANGED ret
       ELSE /\ stack' = Leave(stack)
            /\ ret' = CASE b = "resolve" -> "resolved"
                        [] b = "reject" -> "rejected"
                        [] OTHER -> "thrown"
    /\ routeHandled' = (routeHandled \/ b = "markNext")
    /\ UNCHANGED <<routePath, routeCtx, fixedReq, lastExit, varsSM, varsApp, varsDef, varsOther>>

\* `await next()` of an async middleware is over: an async function never
\* throws, it returns a rejected promise
userAwait ==
    /\ At("user", "await")
    /\ ret # "none"
    /\ stack' = Leave(stack)
    /\ ret' = IF ret = "thrown" THEN "rejected" ELSE ret
    /\ UNCHANGED <<mountCtx, routeCtx, fixedReq, log, lastExit, varsSM, varsApp, varsDef, varsOther>>

\* as tailReturn, but a dispatch whose middleware resolved without calling
\* next goes on to the next middleware of its list
tailReturnChaining ==
    /\ Len(stack) > 0
    /\ Top.pc = "tail"
    /\ ret # "none"
    /\ LET o == Top.owner
       IN IF Top.t = "run" /\ ret = "resolved" /\ stack[o].idx < Len(stack[o].list)
          THEN /\ stack' = Enter([stack EXCEPT ![o].idx = @ + 1], Top, "tail",
                                 CallFrame(stack[o].list[stack[o].idx + 1],
                                           Cont("run", o)))
               /\ ret' = "none"
          ELSE /\ stack' = Leave(stack)
               /\ UNCHANGED ret
    /\ UNCHANGED <<mountCtx, routeCtx, fixedReq, log, lastExit, varsSM, varsApp, varsDef, varsOther>>

\* as tailReturn, but a rejected promise is returned as a resolved one
tailReturnSwallow ==
    /\ Len(stack) > 0
    /\ Top.pc = "tail"
    /\ ret # "none"
    /\ stack' = Leave(stack)
    /\ ret' = IF ret = "rejected" THEN "resolved" ELSE ret
    /\ UNCHANGED <<mountCtx, routeCtx, fixedReq, log, lastExit, varsSM, varsApp, varsDef, varsOther>>

\* `return f(...)`: what f returned or threw is returned or thrown
tailReturn ==
    /\ Len(stack) > 0
    /\ Top.pc = "tail"
    /\ ret # "none"
    /\ stack' = Leave(stack)
    /\ UNCHANGED <<ret, mountCtx, routeCtx, fixedReq, log, lastExit, varsSM, varsApp, varsDef, varsOther>>

\* the terminal next runs: the application's fallback handler
terminalNext(outcome) ==
    /\ At("terminal", "start")
    /\ log' = Append(log, [id |-> 0, beh |-> outcome])
    /\ stack' = Leave(stack)
    /\ ret' = outcome
    /\ UNCHANGED <<mountCtx, routeCtx, fixedReq, lastExit, varsSM, varsApp, varsDef, varsOther>>

\* dispatch(context, next, middlewares)
dispatch ==
    /\ At("chain", "start")
    /\ stack' = IF Len(Top.list) = 0
                THEN Enter(stack, Top, "tail", ContFrame(Top.next))
                ELSE Enter(stack, [Top EXCEPT !.idx = 0], "tail",
                           ContFrame(Cont("run", Len(stack))))
    /\ UNCHANGED <<ret, mountCtx, routeCtx, fixedReq, log, lastExit, varsSM, varsApp, varsDef, varsOther>>

\* as run, currentIndex advanced by two
runSkipOne ==
    /\ At("run", "start")
    /\ LET o == Top.owner
           f == stack[o]
       IN stack' = IF f.idx < Len(f.list)
                   THEN Enter([stack EXCEPT ![o].idx = @ + 2], Top, "tail",
                              CallFrame(f.list[f.idx + 1], Cont("run", o)))
                   ELSE Enter(stack, Top, "tail", ContFrame(f.next))
    /\ UNCHANGED <<ret, mountCtx, routeCtx, fixedReq, log, lastExit, varsSM, varsApp, varsDef, varsOther>>

\* the closure run of dispatch, which is the next of every middleware of the
\* list: it calls the middleware at currentIndex and advances currentIndex,
\* or calls the outer next when the list is exhausted
run ==
    /\ At("run", "start")
    /\ LET o == Top.owner
           f == stack[o]
       IN stack' = IF f.idx < Len(f.list)
                   THEN Enter([stack EXCEPT ![o].idx = @ + 1], Top, "tail",
                              CallFrame(f.list[f.idx + 1], Cont("run", o)))
                   ELSE Enter(stack, Top, "tail", ContFrame(f.next))
    /\ UNCHANGED <<ret, mountCtx, routeCtx, fixedReq, log, lastExit, varsSM, varsApp, varsDef, varsOther>>

\* the middleware the compose of part_009 returns:
\* (context, next) => dispatch(0, context, next)
compose ==
    /\ At("compose", "start")
    /\ stack' = Enter(stack, Top, "tail",
                      ContFrame(ContAt("composeDispatch", Len(stack), 0)))
    /\ UNCHANGED <<ret, mountCtx, routeCtx, fixedReq, log, lastExit, varsSM, varsApp, varsDef, varsOther>>

\* dispatch(index, context, next), the inner function of that compose: the
\* next of middleware index is a closure that holds index + 1, or the outer
\* next for the last middleware
composeDispatch ==
    /\ At("composeDispatch", "start")
    /\ LET o == Top.owner
           f == stack[o]
           nextIndex == Top.idx + 1
           nextFn == IF nextIndex < Len(f.list)
                     THEN ContAt("composeDispatch", o, nextIndex)
                     ELSE f.next
       IN stack' = IF Top.idx >= Len(f.list)
                   THEN Enter(stack, Top, "tail", ContFrame(f.next))
                   ELSE Enter(stack, Top, "tail", CallFrame(f.list[Top.idx + 1], nextFn))
    /\ UNCHANGED <<ret, mountCtx, routeCtx, fixedReq, log, lastExit, varsSM, varsApp, varsDef, varsOther>>

\* a middleware that calls next twice starts: it calls next and awaits it
againStart ==
    /\ At("again", "start")
    /\ log' = Append(log, [id |-> Top.node.id, beh |-> "first"])
    /\ stack' = Enter(stack, Top, "await", ContFrame(Top.next))
    /\ UNCHANGED <<ret, mountCtx, routeCtx, fixedReq, lastExit, varsSM, varsApp, varsDef, varsOther>>

\* its `await next()` is over: on success it calls the same next again, on
\* failure the async function returns a rejected promise
againResume ==
    /\ At("again", "await")
    /\ ret # "none"
    /\ IF ret = "resolved"
       THEN /\ log' = Append(log, [id |-> Top.node.id, beh |-> "second"])
            /\ stack' = Enter(stack, Top, "last", ContFrame(Top.next))
            /\ ret' = "none"
       ELSE /\ stack' = Leave(stack)
            /\ ret' = "rejected"
            /\ UNCHANGED log
    /\ UNCHANGED <<mountCtx, routeCtx, fixedReq, lastExit, varsSM, varsApp, varsDef, varsOther>>

\* `return next()` of the async function: what the second call gave
againReturn ==
    /\ At("again", "last")
    /\ ret # "none"
    /\ stack' = Leave(stack)
    /\ ret' = IF ret = "thrown" THEN "rejected" ELSE ret
    /\ UNCHANGED <<mountCtx, routeCtx, fixedReq, log, lastExit, varsSM, varsApp, varsDef, varsOther>>

(***************************************************************************)
(* mount(path, middleware)                                                 *)
(***************************************************************************)
\* targetPath = path.endsWith("/") ? path.slice(0, -1) : path
MountTargetPath(path) ==
    IF Len(path) > 0 /\ path[Len(path)] = "/" THEN SubSeq(path, 1, Len(path) - 1)
    ELSE path

\* resetPathIfRequired() of the mount invocation in frame o: the frame, and
\* the route path, after it
ResetPathFrame(st, o) ==
    IF st[o].latch THEN st
    ELSE [st EXCEPT ![o].latch = TRUE, ![o].resets = @ + 1]
ResetPathValue(st, o, current) == IF st[o].latch THEN current ELSE st[o].saved

\* Context.getRoutePath(): this._routePath || this.getUrl().pathname
getRoutePath == IF routePath = <<>> THEN reqPath ELSE routePath

\* as MountDecision, but the prefix is tested with its trailing slash on:
\* routePath.startsWith(path), routePath.slice(pathLength)
MountDecisionUnstripped(path, current) ==
    [match |-> StartsWith(current, path),
     rewritten |-> Slice(current, Len(MountTargetPath(path)))]

\* what mount(path, ...) decides for the route path current:
\* routePath.startsWith(targetPath), and routePath.slice(pathLength)
MountDecision(path, current) ==
    [match |-> StartsWith(current, MountTargetPath(path)),
     rewritten |-> Slice(current, Len(MountTargetPath(path)))]

\* the middleware mount returns is called
mountEnter ==
    /\ At("mount", "start")
    /\ LET path == getRoutePath
           decision == MountDecision(Top.node.path, path)
       IN IF ~decision.match
          THEN /\ stack' = Enter(stack, Top, "tail", ContFrame(Top.next))
               /\ UNCHANGED routePath
          ELSE /\ routePath' = decision.rewritten
               /\ stack' = Enter(stack, [Top EXCEPT !.saved = path], "called",
                                 CallFrame(Top.node.target,
                                           Cont("mountNext", Len(stack))))
    /\ UNCHANGED <<ret, routeHandled, routeCtx, fixedReq, log, lastExit, varsSM, varsApp, varsDef, varsOther>>

\* as mountNext, but the outer next is called with the path as it is and the
\* restoring is left to the callbacks of .then(...)
mountNextUnrestored ==
    /\ At("mountNext", "start")
    /\ LET o == Top.owner
       IN IF routeHandled
          THEN /\ stack' = Leave(stack)
               /\ ret' = "resolved"
          ELSE /\ stack' = Enter(stack, Top, "tail", ContFrame(stack[o].next))
               /\ UNCHANGED ret
    /\ UNCHANGED <<mountCtx, routeCtx, fixedReq, log, lastExit, varsSM, varsApp, varsDef, varsOther>>

\* as mountNext, but the outer next is called whatever routeHandled says
mountNextAlways ==
    /\ At("mountNext", "start")
    /\ LET o == Top.owner
           st == ResetPathFrame(stack, o)
       IN /\ routePath' = ResetPathValue(stack, o, routePath)
          /\ stack' = Enter(st, Top, "tail", ContFrame(stack[o].next))
          /\ UNCHANGED ret
    /\ UNCHANGED <<routeHandled, routeCtx, fixedReq, log, lastExit, varsSM, varsApp, varsDef, varsOther>>

\* the next that mount hands to its target is called
mountNext ==
    /\ At("mountNext", "start")
    /\ LET o == Top.owner
           st == ResetPathFrame(stack, o)
       IN /\ routePath' = ResetPathValue(stack, o, routePath)
          /\ IF routeHandled
             THEN /\ stack' = Leave(st)
                  /\ ret' = "resolved"
             ELSE /\ stack' = Enter(st, Top, "tail", ContFrame(stack[o].next))
                  /\ UNCHANGED ret
    /\ UNCHANGED <<routeHandled, routeCtx, fixedReq, log, lastExit, varsSM, varsApp, varsDef, varsOther>>

\* the target of the mount has returned: the two callbacks of .then(...) when
\* it returned a promise; nothing of mount runs when it threw
mountSettle ==
    /\ At("mount", "called")
    /\ ret # "none"
    /\ LET o == Len(stack)
           st == IF ret = "thrown" THEN stack ELSE ResetPathFrame(stack, o)
           rp == IF ret = "thrown" THEN routePath
                 ELSE ResetPathValue(stack, o, routePath)
       IN /\ routePath' = rp
          /\ stack' = Leave(st)
          /\ lastExit' = [kind |-> "mount", outcome |-> ret,
                          before |-> stack[o].saved,
                          after |-> IF rp = <<>> THEN reqPath ELSE rp,
                          resets |-> st[o].resets, outermost |-> Outermost(o)]
    /\ UNCHANGED <<ret, routeHandled, routeCtx, fixedReq, log, varsSM, varsApp, varsDef, varsOther>>

(***************************************************************************)
(* routeHandler(router, context, next) and the RouteContext                *)
(***************************************************************************)
\* as Popping, without the test that the match is the current match
\* resetIfNeeded() of the router invocation in frame o pops: the match has
\* not been reset and is the current match of the route context
PoppingUnguarded(o) == ~stack[o].latch
Popping(o) == ~stack[o].latch /\ currentMatch.id = stack[o].match.id

\* the frame after resetIfNeeded()
ResetMatchFrame(st, o) ==
    [st EXCEPT ![o].latch = TRUE, ![o].resets = IF Popping(o) THEN @ + 1 ELSE @]

\* Object.assign(target, source) on lists of name and value: the entries of
\* source replace those of target with the same name
ObjectAssign(target, source) ==
    SelectSeq(target, LAMBDA e : \A i \in 1..Len(source) : source[i].name # e.name)
    \o source

\* as pop, the parameters of the popped match taken out of params
popForgetting(o) ==
    LET m == matches[Len(matches)]
        rest == SubSeq(matches, 1, Len(matches) - 1)
    IN /\ matches' = rest
       /\ params' = [params EXCEPT !.entries =
                         SelectSeq(@, LAMBDA e : \A i \in 1..Len(m.params) :
                                                    m.params[i].name # e.name)]
       /\ currentMatch' = IF Len(rest) > 0 THEN rest[Len(rest)] ELSE NoMatch
       /\ pendingRoutePath' = m.path \o pendingRoutePath
       /\ lastPop' = [done |-> TRUE, pushedAt |-> stack[o].saved,
                      poppedTo |-> m.path \o pendingRoutePath,
                      curBefore |-> stack[o].cur.id,
                      curAfter |-> IF Len(rest) > 0 THEN rest[Len(rest)].id ELSE 0]

\* RouteContext.pop()
pop(o) ==
    LET m == matches[Len(matches)]
        rest == SubSeq(matches, 1, Len(matches) - 1)
    IN /\ matches' = rest
       /\ UNCHANGED params
       /\ currentMatch' = IF Len(rest) > 0 THEN rest[Len(rest)] ELSE NoMatch
       /\ pendingRoutePath' = m.path \o pendingRoutePath
       /\ lastPop' = [done |-> TRUE, pushedAt |-> stack[o].saved,
                      poppedTo |-> m.path \o pendingRoutePath,
                      curBefore |-> stack[o].cur.id,
                      curAfter |-> IF Len(rest) > 0 THEN rest[Len(rest)].id ELSE 0]

\* RouteContext.push(match)
push(match) ==
    /\ matches' = Append(matches, match)
    /\ params' = IF match.route.paramKeys >= 0
                 THEN [null |-> FALSE, entries |-> ObjectAssign(params.entries, match.params)]
                 ELSE params
    /\ pendingRoutePath' = IF Len(match.path) > 0
                           THEN Slice(pendingRoutePath, Len(match.path))
                           ELSE pendingRoutePath
    /\ currentMatch' = match

\* the route context after resetIfNeeded() of the invocation in frame o
resetIfNeeded(o) ==
    /\ IF Popping(o) THEN pop(o)
       ELSE UNCHANGED <<matches, currentMatch, pendingRoutePath, lastPop, params>>
    /\ UNCHANGED matchCount

\* as routeHandler, but a router without a match resolves by itself
routeHandlerNoFallThrough ==
    /\ At("router", "start")
    /\ LET router == Top.node
           o == Len(stack)
           found == Match(router, method, pendingRoutePath)
           match == [id |-> matchCount + 1, path |-> found.path,
                     route |-> found.route, descriptor |-> found.descriptor,
                     params |-> found.params]
       IN IF found.thrown
          THEN /\ stack' = Leave(stack)
               /\ ret' = "thrown"
               /\ UNCHANGED routeCtx
          ELSE IF found.found
          THEN /\ push(match)
               /\ matchCount' = matchCount + 1
               /\ stack' = Enter(stack,
                      [Top EXCEPT !.match = match, !.saved = pendingRoutePath,
                                  !.depth = Len(matches), !.cur = currentMatch],
                      "called",
                      IF Len(router.middlewares) > 0
                      THEN DispatchFrame(router.middlewares, Cont("handlerThunk", o))
                      ELSE CallFrame(found.route.handler, Cont("nextHandler", o)))
               /\ UNCHANGED <<ret, lastPop>>
          ELSE /\ stack' = Leave(stack)
               /\ ret' = "resolved"
               /\ UNCHANGED routeCtx
    /\ UNCHANGED <<mountCtx, fixedReq, log, lastExit, varsSM, varsApp, varsDef, varsOther>>

\* routeHandler is called
routeHandler ==
    /\ At("router", "start")
    /\ LET router == Top.node
           o == Len(stack)
           found == Match(router, method, pendingRoutePath)
           match == [id |-> matchCount + 1, path |-> found.path,
                     route |-> found.route, descriptor |-> found.descriptor,
                     params |-> found.params]
       IN IF found.thrown
          THEN /\ stack' = Leave(stack)
               /\ ret' = "thrown"
               /\ UNCHANGED routeCtx
          ELSE IF found.found
          THEN /\ push(match)
               /\ matchCount' = matchCount + 1
               /\ stack' = Enter(stack,
                      [Top EXCEPT !.match = match, !.saved = pendingRoutePath,
                                  !.depth = Len(matches), !.cur = currentMatch],
                      "called",
                      IF Len(router.middlewares) > 0
                      THEN DispatchFrame(router.middlewares, Cont("handlerThunk", o))
                      ELSE CallFrame(found.route.handler, Cont("nextHandler", o)))
               /\ UNCHANGED <<ret, lastPop>>
          ELSE /\ stack' = Enter(stack, Top, "tail",
                      IF Len(router.middlewares) > 0
                      THEN DispatchFrame(router.middlewares, Top.next)
                      ELSE ContFrame(Top.next))
               /\ UNCHANGED <<ret, routeCtx>>
    /\ UNCHANGED <<mountCtx, fixedReq, log, lastExit, varsSM, varsApp, varsDef, varsOther>>

\* () => match.route.handler(context, nextHandler), the next of the router's
\* last middleware
handlerThunk ==
    /\ At("handlerThunk", "start")
    /\ LET o == Top.owner
       IN stack' = Enter(stack, Top, "tail",
                         CallFrame(stack[o].match.route.handler,
                                   Cont("nextHandler", o)))
    /\ UNCHANGED <<ret, mountCtx, routeCtx, fixedReq, log, lastExit, varsSM, varsApp, varsDef, varsOther>>

\* nextHandler, the next of the matched handler
nextHandler ==
    /\ At("nextHandler", "start")
    /\ LET o == Top.owner
       IN /\ resetIfNeeded(o)
          /\ stack' = Enter(ResetMatchFrame(stack, o), Top, "tail",
                            ContFrame(stack[o].next))
    /\ UNCHANGED <<ret, mountCtx, fixedReq, log, lastExit, varsSM, varsApp, varsDef, varsOther>>

\* the handler, or the dispatch over the router's middlewares, has returned:
\* .then(resetIfNeeded).catch(errorHandler) when it returned a promise;
\* nothing of routeHandler runs when it threw
routeSettle ==
    /\ At("router", "called")
    /\ ret # "none"
    /\ LET o == Len(stack)
           st == IF ret = "thrown" THEN stack ELSE ResetMatchFrame(stack, o)
       IN /\ IF ret = "thrown" THEN UNCHANGED routeCtx ELSE resetIfNeeded(o)
          /\ stack' = Leave(st)
          /\ lastExit' = [kind |-> "router", outcome |-> ret,
                          before |-> stack[o].saved, after |-> pendingRoutePath',
                          resets |-> st[o].resets,
                          depthBefore |-> stack[o].depth,
                          depthAfter |-> Len(matches'),
                          outermost |-> Outermost(o)]
    /\ UNCHANGED <<ret, mountCtx, fixedReq, log, varsSM, varsApp, varsDef, varsOther>>

NextReq ==
    \/ \E b \in Behaviours : userStart(b)
    \/ userAwait
    \/ tailReturn
    \/ \E outcome \in {"resolved", "rejected", "thrown"} : terminalNext(outcome)
    \/ dispatch
    \/ run
    \/ compose
    \/ composeDispatch
    \/ mountEnter
    \/ mountNext
    \/ mountSettle
    \/ routeHandler
    \/ handlerThunk
    \/ nextHandler
    \/ routeSettle

SpecReq == InitReq /\ [][NextReq]_vars

\* a request to a chain in which a middleware calls its next twice
InitNext ==
    /\ InitManager
    /\ prog \in AgainPrograms
    /\ reqPath = <<"/">>
    /\ method = "GET"
    /\ stack = <<CallFrame(prog, Terminal)>>
    /\ ret = "none"
    /\ routePath = <<>>
    /\ routeHandled = FALSE
    /\ pendingRoutePath = reqPath
    /\ matches = <<>>
    /\ currentMatch = NoMatch
    /\ matchCount = 0
    /\ params = NoParams
    /\ log = <<>>
    /\ lastExit = NoExit
    /\ lastPop = NoPop
    /\ NoApplication
    /\ NoRouter
    /\ NoOther

NextNext ==
    \/ againStart
    \/ againResume
    \/ againReturn
    \/ \E b \in Behaviours : userStart(b)
    \/ userAwait
    \/ tailReturn
    \/ \E outcome \in {"resolved", "rejected", "thrown"} : terminalNext(outcome)
    \/ dispatch
    \/ run
    \/ compose
    \/ composeDispatch

SpecNext == InitNext /\ [][NextNext]_vars

(***************************************************************************)
(* Claims about the ShutdownManager, checked under SpecSM.                 *)
(***************************************************************************)

\* C4: when the grace period elapses while a tracked connection still has
\* requests in flight, every remaining connection is destroyed and the
\* callback is invoked with isForcedExit = true (so never with false).
C4_ForcedExitCallbackTrue ==
    \A c \in Calls :
        (call[c].busyAtGrace /\ call[c].timer = "done") =>
            /\ \A s \in DOMAIN socketRequestCountMap : destroyed[s]
            /\ \A i \in DOMAIN invoked[c] : invoked[c][i].isForcedExit

\* C5: the callback is invoked with isForcedExit = false only once the
\* connection map is empty, it is invoked with true only while a tracked
\* connection has not closed, and once the server has closed and the map is
\* empty it has been invoked.
C5_GracefulCallbackFalse ==
    \A c \in Calls :
        /\ \A i \in DOMAIN invoked[c] :
              invoked[c][i].isForcedExit <=> (invoked[c][i].mapSize > 0)
        /\ (call[c].phase = "done" /\ MapSize(socketRequestCountMap) = 0)
              => invoked[c] # <<>>

C5_Witness ==
    \E c \in Calls :
        /\ invoked[c] = <<Invocation(FALSE, EmptyMap)>>
        /\ \E s \in Sockets : sock[s] = "closed" /\ ended[s]
        /\ ~graceElapsed

\* C6: the callback of a shutdown call is invoked at most once.
C6_CallbackAtMostOnce == \A c \in Calls : Len(invoked[c]) <= 1

C6_Witness ==
    \E c \in Calls :
        /\ Len(invoked[c]) = 1
        /\ call[c].phase = "done"
        /\ call[c].timer = "done"
        /\ \A s \in Sockets : sock[s] = "closed"

MaxParamLen == 4

AppChars == {"x", "%", "2", "0"}
\* "/" followed by one segment
AppPaths ==
    {<<"/">> \o q : q \in UNION {[1..n -> AppChars] : n \in 1..MaxParamLen}}

\* app.use(u1, .., uk); app.use(router); app.use(u2, router), where router
\* is new Router().get("/:id", u1)
AppRouterPrograms == {Chain(<<ParamRouter>>), Chain(<<User(2), ParamRouter>>)}
AppPrograms ==
    {Chain([i \in 1..k |-> User(i)]) : k \in 0..2} \cup AppRouterPrograms

\* values a failure can have: err is undefined or null (Promise.reject()),
\* or an object whose statusCode property is the number given (0: none)
JsError(statusCode) ==
    [nullish |-> FALSE, statusCode |-> statusCode, integer |-> TRUE]
\* an object whose statusCode property is the number given plus one half
JsErrorFraction(statusCode) ==
    [nullish |-> FALSE, statusCode |-> statusCode, integer |-> FALSE]
Nullish == [nullish |-> TRUE, statusCode |-> 0, integer |-> FALSE]
NoError == [nullish |-> FALSE, statusCode |-> -1, integer |-> FALSE]
\* what a middleware of the application rejects with or throws:
\* new Error(..), objects with statusCode 399, 400, 503, 599, 600 and 404.5,
\* nothing
UserErrors ==
    {JsError(0), JsError(399), JsError(400), JsError(503), JsError(599),
     JsError(600), JsErrorFraction(404), Nullish}

\* err[HttpErrorStatusCodeKey], a number: n, or n and a half
StatusCodeOf(err) == [n |-> err.statusCode, integer |-> err.integer]

\* isHttpErrorStatusCode(code)
isHttpErrorStatusCode(code) == code.integer /\ code.n > 399 /\ code.n < 600
\* getHttpErrorStatusCode(err)
getHttpErrorStatusCode(err) ==
    IF ~isHttpErrorStatusCode(StatusCodeOf(err)) THEN 500 ELSE err.statusCode

\* res.write(..) or res.writeHead(..): the head goes out with the status
\* code the response has at that moment; nothing happens after end()
Write(r) ==
    IF r.finished \/ r.headersSent THEN r
    ELSE [r EXCEPT !.headersSent = TRUE, !.sent = r.statusCode]
\* res.end(): no effect on a response that is finished
End(r) == IF r.finished THEN r ELSE [Write(r) EXCEPT !.finished = TRUE]

\* errorToResponse(err, res): the response after it
errorToResponse(err, r) ==
    LET status == getHttpErrorStatusCode(err)
        r1 == IF ~r.headersSent THEN [r EXCEPT !.statusCode = status] ELSE r
    IN IF ~r1.finished THEN End(r1) ELSE r1

\* the listener has been called with (req, res)
NewListener ==
    [kind |-> "listener",
     chain |-> "none",       \* how the composed chain came back; "factory":
                             \* it was not called, the context factory threw
     errorCalls |-> 0,       \* calls of the error handler
     errorArg |-> NoError,   \* the err it was called with
     before |-> NewResponse, \* the response when the error handler was called
     fallbackCalls |-> 0,    \* calls of the fallback handler
     endOnFinished |-> FALSE,\* the fallback or the error handler has called
                             \* res.end() on a finished response
     outcome |-> "running"]  \* "returned"; "escaped": the listener threw;
                             \* "unhandled": a rejection nobody handles

\* the failure the chain came back with: what the middleware that ran last
\* rejected with or threw, else the createError(400, ..) of decodeRouteParam
Failures ==
    IF Len(log) > 0 /\ log[Len(log)].beh \in {"reject", "throw"} THEN UserErrors
    ELSE {JsError(400)}

\* errorHandler(err, req, res, context) is called, from the catch block
\* (via = "thrown") or from the callback of .catch (via = "rejected"), with
\* defaultErrorHandler as the error handler: getHttpErrorStatusCode reads
\* err.statusCode, a TypeError when err is undefined or null
CallErrorHandler(a, r, err, via) ==
    [a EXCEPT !.errorCalls = @ + 1,
              !.errorArg = err,
              !.before = r,
              !.outcome = IF ~err.nullish THEN "returned"
                          ELSE IF via = "thrown" THEN "escaped"
                          ELSE "unhandled"]

InitApp ==
    /\ InitManager
    /\ NoRouter
    /\ NoOther
    /\ prog \in AppPrograms
    /\ reqPath \in IF prog \in AppRouterPrograms THEN AppPaths ELSE {<<"/">>}
    /\ method = "GET"
    /\ stack = <<NewFrame("listener", prog, Terminal, 0, <<>>)>>
    /\ ret = "none"
    /\ routePath = <<>>
    /\ routeHandled = FALSE
    /\ pendingRoutePath = reqPath
    /\ matches = <<>>
    /\ currentMatch = NoMatch
    /\ matchCount = 0
    /\ params = NoParams
    /\ log = <<>>
    /\ lastExit = NoExit
    /\ lastPop = NoPop
    /\ res = NewResponse
    /\ app = NewListener

\* the listener runs up to the call of fn: the context factory returns the
\* context, or throws and the catch block calls the error handler
listenerStart(factoryThrows) ==
    /\ At("listener", "start")
    /\ IF factoryThrows
       THEN /\ stack' = <<>>
            /\ app' = CallErrorHandler([app EXCEPT !.chain = "factory"], res,
                                       JsError(0), "thrown")
            /\ res' = errorToResponse(JsError(0), res)
       ELSE /\ stack' = Enter(stack, Top, "called",
                              CallFrame(prog, Cont("fallback", 1)))
            /\ UNCHANGED varsApp
    /\ UNCHANGED <<ret, mountCtx, routeCtx, fixedReq, log, lastExit, varsSM,
                   varsDef, varsOther>>

\* as listenerSettle, the error handler called however fn came back
listenerSettleAlways(err) ==
    /\ At("listener", "called")
    /\ ret # "none"
    /\ stack' = <<>>
    /\ app' = CallErrorHandler([app EXCEPT !.chain = ret], res, err, ret)
    /\ res' = IF err.nullish THEN res ELSE errorToResponse(err, res)
    /\ UNCHANGED <<ret, mountCtx, routeCtx, fixedReq, log, lastExit, varsSM,
                   varsDef, varsOther>>

\* fn(context, ..) has come back: it threw, and the catch block calls the
\* error handler; or it returned a promise, on whose rejection the callback
\* of .catch calls the error handler
listenerSettle(err) ==
    /\ At("listener", "called")
    /\ ret # "none"
    /\ stack' = <<>>
    /\ IF ret = "resolved"
       THEN /\ app' = [app EXCEPT !.chain = ret, !.outcome = "returned"]
            /\ UNCHANGED res
       ELSE /\ err \in Failures
            /\ app' = CallErrorHandler([app EXCEPT !.chain = ret], res, err, ret)
            /\ res' = IF err.nullish THEN res ELSE errorToResponse(err, res)
    /\ UNCHANGED <<ret, mountCtx, routeCtx, fixedReq, log, lastExit, varsSM,
                   varsDef, varsOther>>

\* () => fallbackHandler(context, null), the next of the last middleware,
\* with defaultFallbackNotFoundHandler as the fallback handler
fallbackHandler ==
    /\ At("fallback", "start")
    /\ res' = End([res EXCEPT !.statusCode = 404])
    /\ app' = [app EXCEPT !.fallbackCalls = @ + 1,
                          !.endOnFinished = @ \/ res.finished]
    /\ log' = Append(log, [id |-> 0, beh |-> "resolved"])
    /\ stack' = Leave(stack)
    /\ ret' = "resolved"
    /\ UNCHANGED <<mountCtx, routeCtx, fixedReq, lastExit, varsSM, varsDef, varsOther>>

\* a middleware of the application, before it returns, writes to the
\* response or ends it
userRespond(how) ==
    /\ At("user", "start")
    /\ ~Top.latch
    /\ res' = IF how = "end" THEN End(res) ELSE Write(res)
    /\ stack' = [stack EXCEPT ![Len(stack)].latch = TRUE]
    /\ UNCHANGED <<ret, mountCtx, routeCtx, fixedReq, log, lastExit, app, varsSM,
                   varsDef, varsOther>>

NextApp ==
    \/ \E factoryThrows \in BOOLEAN : listenerStart(factoryThrows)
    \/ \E err \in UserErrors \cup {JsError(400)} : listenerSettle(err)
    \/ fallbackHandler
    \/ \E how \in {"write", "end"} : userRespond(how)
    \/ \E b \in Behaviours : userStart(b)
    \/ userAwait
    \/ tailReturn
    \/ dispatch
    \/ run
    \/ routeHandler
    \/ nextHandler
    \/ routeSettle

SpecApp == InitApp /\ [][NextApp]_vars

(***************************************************************************)
(* Claims about the request listener, checked under SpecApp.               *)
(***************************************************************************)

\* C13: the fallback handler and the error handler finalize the response
\* only if nothing upstream already did - they never call res.end() on a
\* response that is finished - and once one of them has run and the listener
\* is through, the response is finished.
C13_CompletedOnce ==
    app.kind = "listener" =>
        /\ ~app.endOnFinished
        /\ (app.outcome = "returned" /\ app.fallbackCalls + app.errorCalls > 0)
               => res.finished

\* C14: the error handler is called at most once per request; never when
\* the chain resolves; once, with the failure, when the chain's promise
\* rejects, when the chain throws, and when the context factory throws.
C14_ErrorHandlerCalls ==
    app.kind = "listener" =>
        /\ app.errorCalls <= 1
        /\ app.chain = "resolved" => app.errorCalls = 0
        /\ app.chain \in {"rejected", "thrown"} =>
              /\ app.errorCalls = 1
              /\ app.errorArg \in Failures
        /\ app.chain = "factory" =>
              /\ app.errorCalls = 1
              /\ app.errorArg = JsError(0)
              /\ log = <<>>

\* the second of two middlewares rejected, behind one that awaited next, and
\* the error handler has answered 500
C14_Witness ==
    /\ app.kind = "listener"
    /\ app.chain = "rejected"
    /\ app.errorCalls = 1
    /\ app.errorArg = JsError(0)
    /\ Len(log) = 2
    /\ log[1].beh = "awaitNext"
    /\ log[2].beh = "reject"
    /\ res.finished
    /\ res.sent = 500

\* the context factory threw and the error handler has answered 500
C14_WitnessFactory ==
    /\ app.kind = "listener"
    /\ app.chain = "factory"
    /\ app.errorCalls = 1
    /\ res.finished
    /\ res.sent = 500

\* C15: the listener never throws to the transport and never leaves a
\* rejected promise without a handler: every failure ends in a call of the
\* error handler that returns.
C15_NothingEscapes ==
    app.kind = "listener" =>
        /\ app.outcome \in {"running", "returned"}
        /\ app.chain \in {"rejected", "thrown", "factory"} => app.errorCalls = 1

\* the context was created and all the middlewares in front of the router
\* have called next
RouterReached ==
    /\ prog \in AppRouterPrograms
    /\ app.chain # "factory"
    /\ Len(log) >= Len(prog.list) - 1
    /\ \A i \in 1..(Len(prog.list) - 1) : log[i].id # 1 /\ log[i].beh \in NextBehaviours

\* C20: the parameter of a matched route "/:id" is stored under its name,
\* percent-decoded ("/%20x" gives id = " x"); and when its decoding fails
\* the error handler is called once with an error of status 400, returns,
\* and the response is finished, with status 400 unless its head had been
\* written before.
C20_ParamsDecoded ==
    prog \in AppRouterPrograms =>
        LET capture == Slice(reqPath, 1)
        IN /\ Len(matches) >= 1 =>
                 /\ Len(matches[1].params) = 1
                 /\ matches[1].params[1].name = "id"
                 /\ matches[1].params[1].value = decodeURIComponent(capture).value
                 /\ capture = <<"%", "2", "0", "x">>
                        => matches[1].params[1].value = <<" ", "x">>
                 /\ \A i \in 1..Len(matches[1].params[1].value) :
                        matches[1].params[1].value[i] # "%"
           /\ (~decodeURIComponent(capture).ok /\ RouterReached
                  /\ app.outcome # "running") =>
                 /\ app.errorCalls = 1
                 /\ app.errorArg.statusCode = 400
                 /\ app.outcome = "returned"
                 /\ res.finished
                 /\ ~app.before.headersSent => res.sent = 400

\* GET /%20x: the handler of "/:id" runs with id = " x"
C20_Witness ==
    /\ prog \in AppRouterPrograms
    /\ reqPath = <<"/", "%", "2", "0", "x">>
    /\ Len(matches) = 1
    /\ matches[1].params = <<[name |-> "id", value |-> <<" ", "x">>]>>
    /\ Len(log) > 0
    /\ log[Len(log)].id = 1

\* GET /%: the request has ended in a 400 response
C20_WitnessFails ==
    /\ prog \in AppRouterPrograms
    /\ reqPath = <<"/", "%">>
    /\ app.outcome = "returned"
    /\ app.errorCalls = 1
    /\ res.finished
    /\ res.sent = 400

\* C30: when the default error handler is called, the response afterwards
\* is finished; if its head had not been sent it carries the failure's
\* statusCode when that is an integer from 400 to 599 and 500 for every other
\* failure, if the head had been sent status and head are what they were,
\* and a finished response is left as it was. When the default fallback
\* handler is called on a response nobody wrote to, the response goes out
\* with status 404.
C30_DefaultHandlers ==
    [][/\ app'.errorCalls = app.errorCalls + 1 =>
            LET err == app'.errorArg
                expected == IF /\ ~err.nullish
                               /\ err.integer
                               /\ err.statusCode >= 400
                               /\ err.statusCode <= 599
                            THEN err.statusCode ELSE 500
            IN /\ res'.finished
               /\ ~res.headersSent =>
                      res'.statusCode = expected /\ res'.sent = expected
               /\ res.headersSent =>
                      res'.statusCode = res.statusCode /\ res'.sent = res.sent
               /\ res.finished => res' = res
       /\ At("fallback", "start") =>
            /\ res'.finished
            /\ ~res.headersSent => res'.statusCode = 404 /\ res'.sent = 404]_vars

(***************************************************************************)
(* The request body of a Context: Context.getRequestBody                   *)
(* (context.ts:408-415) over parseBody (body-parser.ts).                   *)
(***************************************************************************)
\* getRequestBody calls made on one Context
MaxBodyCalls == 4

\* the parser argument of a call: none given, or a parser of the caller
ParserArguments == {"none", "custom"}
\* Context.requestParser: unset, or the parser given to the constructor
ContextParsers == {"none", "context"}
\* how a parser calls back: no body (handleRequestBodyAbsence: null), a body,
\* or an error, which rejects the promise
ParseOutcomes == {"null", "body", "rejected"}

\* parser || this.requestParser
EffectiveParser(parser) == IF parser # "none" THEN parser ELSE requestParser

InitBody ==
    /\ InitManager
    /\ NoPipeline
    /\ requestParser \in ContextParsers
    /\ bodyParseTask = 0
    /\ parseTasks = <<>>
    /\ bodyCalls = <<>>
    /\ NoHandler
    /\ NoDestroy
    /\ NoConcurrent

\* as getRequestBody, but the task is not kept: every call parses
getRequestBodyUnmemoized(parser) ==
    /\ Len(bodyCalls) < MaxBodyCalls
    /\ parseTasks' = Append(parseTasks,
                            [parser |-> EffectiveParser(parser), state |-> "pending"])
    /\ bodyCalls' = Append(bodyCalls,
                           [parser |-> parser, task |-> Len(parseTasks) + 1])
    /\ UNCHANGED <<requestParser, bodyParseTask, varsSM, stack, ret, fixedReq,
                   mountCtx, routeCtx, log, lastExit, varsApp, varsDef, varsHandler,
                   varsDestroy, varsConcurrent>>

\* context.getRequestBody(parser): parseBody calls the parser in the executor
\* of the promise it returns
getRequestBody(parser) ==
    /\ Len(bodyCalls) < MaxBodyCalls
    /\ IF bodyParseTask = 0
       THEN /\ parseTasks' = Append(parseTasks,
                                    [parser |-> EffectiveParser(parser),
                                     state |-> "pending"])
            /\ bodyParseTask' = Len(parseTasks) + 1
       ELSE UNCHANGED <<parseTasks, bodyParseTask>>
    /\ bodyCalls' = Append(bodyCalls, [parser |-> parser, task |-> bodyParseTask'])
    /\ UNCHANGED <<requestParser, varsSM, stack, ret, fixedReq, mountCtx, routeCtx,
                   log, lastExit, varsApp, varsDef, varsHandler,
                   varsDestroy, varsConcurrent>>

\* the parser of task t calls back
parserCallback(t, outcome) ==
    /\ t \in 1..Len(parseTasks)
    /\ parseTasks[t].state = "pending"
    /\ parseTasks' = [parseTasks EXCEPT ![t].state = outcome]
    /\ UNCHANGED <<requestParser, bodyParseTask, bodyCalls, varsSM, stack, ret,
                   fixedReq, mountCtx, routeCtx, log, lastExit, varsApp, varsDef, varsHandler,
                   varsDestroy, varsConcurrent>>

NextBody ==
    \/ \E parser \in ParserArguments : getRequestBody(parser)
    \/ \E t \in 1..MaxBodyCalls, outcome \in ParseOutcomes : parserCallback(t, outcome)

SpecBody == InitBody /\ [][NextBody]_vars

\* C31: on one context the parser is invoked at most once however many
\* getRequestBody calls are made, and every call's promise is the promise of
\* that one invocation, so that all calls yield the same result - also calls
\* made while the parse is pending and calls made after it gave null.
C31_BodyParsedOnce ==
    /\ Len(parseTasks) <= 1
    /\ \A i \in 1..Len(bodyCalls) :
          /\ bodyCalls[i].task = 1
          /\ bodyCalls[i].task = bodyParseTask

\* two calls were made while the parse was pending, it gave null, and a call
\* with another parser was made afterwards: one invocation
C31_Witness ==
    /\ Len(bodyCalls) = MaxBodyCalls
    /\ Len(parseTasks) = 1
    /\ parseTasks[1].state = "null"
    /\ bodyCalls[MaxBodyCalls].parser = "custom"
    /\ bodyCalls[1].parser = "none"

(***************************************************************************)
(* Application.use and Application.createHandler (core.ts:50-71): the      *)
(* handlers made from one application and the requests they serve.         *)
(***************************************************************************)
\* middlewares one application is given
MaxUses == 3
\* handlers made from it
MaxHandlers == 2
\* requests the handlers are called with
MaxRequests == 2

\* what neither the application object nor its handlers touch
varsPipeline ==
    <<varsSM, stack, ret, fixedReq, mountCtx, routeCtx, log, lastExit, varsApp,
      varsDef, varsBody, varsDestroy, varsConcurrent>>

InitHandler ==
    /\ InitManager
    /\ NoPipeline
    /\ NoBody
    /\ NoHandler
    /\ NoDestroy
    /\ NoConcurrent

\* app.use(m, ..): addMiddlewares appends the n middlewares given to
\* this.middlewares; a middleware is named by its position in that list
appUse(n) ==
    /\ Len(appMiddlewares) + n <= MaxUses
    /\ appMiddlewares' = appMiddlewares \o [i \in 1..n |-> Len(appMiddlewares) + i]
    /\ UNCHANGED <<handlers, requests, varsPipeline>>

\* compose(this.middlewares) of the earlier createHandler: the handler reads
\* the array of the application
createHandlerShared ==
    /\ Len(handlers) < MaxHandlers
    /\ handlers' = Append(handlers, [shared |-> TRUE, middlewares |-> <<>>,
                                     count |-> Len(appMiddlewares)])
    /\ UNCHANGED <<appMiddlewares, requests, varsPipeline>>

\* app.createHandler(): compose(...this.middlewares) gets the elements in a
\* rest parameter, an array of its own; count observes how many there were
createHandler ==
    /\ Len(handlers) < MaxHandlers
    /\ handlers' = Append(handlers, [shared |-> FALSE, middlewares |-> appMiddlewares,
                                     count |-> Len(appMiddlewares)])
    /\ UNCHANGED <<appMiddlewares, requests, varsPipeline>>

\* the array dispatch reads for handler h
HandlerMiddlewares(h) ==
    IF handlers[h].shared THEN appMiddlewares ELSE handlers[h].middlewares

\* handler h is called with a request: fn(context, fallback) is about to run
request(h) ==
    /\ Len(requests) < MaxRequests
    /\ h \in 1..Len(handlers)
    /\ requests' = Append(requests, [handler |-> h, ran |-> <<>>, done |-> FALSE,
                                     fallback |-> FALSE,
                                     uses |-> Len(appMiddlewares)])
    /\ UNCHANGED <<appMiddlewares, handlers, varsPipeline>>

\* run of dispatch for request r: the middleware at currentIndex is called,
\* or the fallback handler when the list is exhausted
runRequest(r) ==
    /\ r \in 1..Len(requests)
    /\ ~requests[r].done
    /\ LET list == HandlerMiddlewares(requests[r].handler)
           k == Len(requests[r].ran)
       IN requests' = IF k < Len(list)
                      THEN [requests EXCEPT ![r].ran = Append(@, list[k + 1])]
                      ELSE [requests EXCEPT ![r].done = TRUE, ![r].fallback = TRUE]
    /\ UNCHANGED <<appMiddlewares, handlers, varsPipeline>>

\* the middleware of request r that ran last settles without calling next
settleRequest(r) ==
    /\ r \in 1..Len(requests)
    /\ ~requests[r].done
    /\ Len(requests[r].ran) > 0
    /\ requests' = [requests EXCEPT ![r].done = TRUE]
    /\ UNCHANGED <<appMiddlewares, handlers, varsPipeline>>

NextHandler ==
    \/ \E n \in 1..2 : appUse(n)
    \/ createHandler
    \/ \E h \in 1..MaxHandlers : request(h)
    \/ \E r \in 1..MaxRequests : runRequest(r)
    \/ \E r \in 1..MaxRequests : settleRequest(r)

SpecHandler == InitHandler /\ [][NextHandler]_vars

\* C38: every request runs middlewares of the list its handler was made
\* from, in order from the first: never one that use() added after
\* createHandler, whether before the request or while it was running; and
\* the fallback handler runs when exactly that list has been run.
C38_HandlerKeepsList ==
    \A r \in 1..Len(requests) :
        LET c == handlers[requests[r].handler].count
        IN /\ Len(requests[r].ran) <= c
           /\ \A i \in 1..Len(requests[r].ran) : requests[r].ran[i] = i
           /\ requests[r].fallback => Len(requests[r].ran) = c

\* a handler made after one use(), two more middlewares added, then a
\* request: it ran the first middleware and the fallback handler
C38_Witness ==
    \E r \in 1..Len(requests) :
        /\ handlers[requests[r].handler].count = 1
        /\ requests[r].uses = MaxUses
        /\ requests[r].ran = <<1>>
        /\ requests[r].fallback
        /\ Len(appMiddlewares) = MaxUses

\* a request that was running while use() added a middleware
C38_WitnessRunning ==
    \E r \in 1..Len(requests) :
        /\ handlers[requests[r].handler].count = 1
        /\ requests[r].uses = 1
        /\ requests[r].ran = <<1>>
        /\ requests[r].fallback
        /\ Len(appMiddlewares) > 1

\* C37: a shutdown call with a finite grace period leads to the state in
\* which its callback has been invoked, the connection map is empty and every
\* connection that was accepted has been closed, after the manager ended or
\* destroyed it or by itself.
C37_ShutdownCompletes ==
    \A c \in Calls :
        (call[c].phase = "immediate" /\ call[c].finite) ~>
            /\ invoked[c] # <<>>
            /\ MapSize(socketRequestCountMap) = 0
            /\ \A s \in Sockets : sock[s] \in {"fresh", "closed"}

\* a shutdown with a finite grace period whose timer found a connection busy:
\* the connection was destroyed and closed, the map is empty, the callback ran
C37_Witness ==
    \E c \in Calls :
        /\ call[c].finite
        /\ call[c].busyAtGrace
        /\ call[c].timer = "done"
        /\ call[c].phase = "done"
        /\ invoked[c] # <<>>
        /\ MapSize(socketRequestCountMap) = 0
        /\ \E s \in Sockets : destroyed[s] /\ sock[s] = "closed"
        /\ \A s \in Sockets : sock[s] \in {"fresh", "closed"}

(***************************************************************************)
(* ShutdownManager.destroy (server-utils.ts:84-90), which                  *)
(* detachServerExtensions calls: the manager with its destroy().           *)
(***************************************************************************)
\* what the shutdown manager never touches
varsNotSM ==
    <<stack, ret, fixedReq, mountCtx, routeCtx, log, lastExit, varsApp, varsDef,
      varsBody, varsHandler, varsConcurrent>>

\* destroy(): the 'connection' and 'request' listeners leave the server, the
\* map is cleared, the shutdown listeners are dropped. The 'close' listeners
\* of the sockets and the 'finish' listeners of the responses stay where
\* they are. Connections and requests the server gets afterwards do not
\* reach the manager.
destroy ==
    /\ listenersAttached
    /\ listenersAttached' = FALSE
    /\ socketRequestCountMap' = EmptyMap
    /\ shutdownListeners' = <<>>
    /\ UNCHANGED <<shutdownRequested, sock, listening, inflight, call, ended,
                   destroyed, endedBusy, invoked, graceElapsed, varsNotSM>>

NextDestroy ==
    \/ \E c \in Calls, finite \in BOOLEAN : shutdown(c, finite)
    \/ \E c \in Calls : shutdownImmediate(c)
    \/ \E c \in Calls : serverCloseCallback(c)
    \/ \E s \in Sockets : onConnection(s)
    \/ \E s \in Sockets : transportClose(s)
    \/ \E s \in Sockets : onSocketClose(s)
    \/ \E s \in Sockets : onRequest(s)
    \/ \E s \in Sockets : onResponseFinished(s)
    \/ \E c \in Calls : destroySockets(c)
    \/ \E c \in Calls : destroySocketsImmediate(c)
    \/ destroy

SpecDestroy == InitSM /\ [][NextDestroy]_vars

\* C36: every key of socketRequestCountMap is a connection that was accepted
\* and whose 'close' has not been delivered, and every value is an integer
\* that is not negative - whatever the order of connections, requests,
\* finished responses, closes, shutdown calls, grace timers and destroy().
C36_MapHoldsOpenConnections ==
    \A s \in DOMAIN socketRequestCountMap :
        /\ sock[s] \in {"open", "closing"}
        /\ ~socketRequestCountMap[s].isNaN
        /\ socketRequestCountMap[s].n >= 0

\* as C36, while destroy() has not been called
C36_BeforeDestroy == listenersAttached => C36_MapHoldsOpenConnections

(***************************************************************************)
(* Requests served at the same time by one handler (core.ts:50-65): every  *)
(* request runs the same middlewares, and the requests take turns whenever *)
(* one of them waits.                                                      *)
(***************************************************************************)
\* requests in flight at the same time
MaxConcurrent == 2

\* app.use(u2).use(new Router().get("/a", u1)).use(u3)
ConcurrentList == <<User(2), PlainRouter, User(3)>>
\* the requests / and /a
ConcurrentPaths == {<<"/">>, <<"/", "a">>}
\* the middleware of a request that settles without calling next; 0: none
Stops == 0..3

\* what is common to every action of a request
varsNotConcurrent ==
    <<varsSM, stack, ret, fixedReq, mountCtx, routeCtx, log, lastExit, varsApp,
      varsDef, varsBody, varsHandler, varsDestroy>>

\* MaxConcurrent requests are about to arrive; no Context exists yet
InitConcurrent ==
    /\ InitManager
    /\ NoPipeline
    /\ NoBody
    /\ NoHandler
    /\ NoDestroy
    /\ reqs \in [1..MaxConcurrent ->
                   {[path |-> p, stops |-> k, pc |-> "idle", seen |-> <<>>] :
                       p \in ConcurrentPaths, k \in Stops}]
    /\ currentIndex = [r \in 1..MaxConcurrent |-> 0]
    /\ routeContexts = [r \in 1..MaxConcurrent |-> [pending |-> <<>>, matches |-> <<>>]]

\* as DispatchOf, currentIndex a variable of compose, one for all requests
DispatchOfShared(r) == 1
\* the dispatch invocation whose currentIndex request r reads and writes:
\* `let currentIndex = 0` is a local variable of dispatch, which the handler
\* calls once per request
DispatchOf(r) == r
\* the Context, and with it the RouteContext, of request r: the handler calls
\* the context factory once per request
ContextOf(r) == r

\* what a middleware of request r sees when it starts
Observation(id, rc) ==
    [id |-> id, pending |-> rc.pending, depth |-> Len(rc.matches)]

\* the handler is called with request r: a Context is made, dispatch starts
\* with currentIndex = 0
concurrentListener(r) ==
    /\ reqs[r].pc = "idle"
    /\ reqs' = [reqs EXCEPT ![r].pc = "run"]
    /\ currentIndex' = [currentIndex EXCEPT ![DispatchOf(r)] = 0]
    /\ routeContexts' = [routeContexts EXCEPT
          ![ContextOf(r)] = [pending |-> reqs[r].path, matches |-> <<>>]]
    /\ UNCHANGED varsNotConcurrent

\* run() of the dispatch of request r: the middleware at currentIndex starts,
\* a router among them matching on the pending path of the request's route
\* context, or the fallback handler when the list is through
concurrentRun(r) ==
    /\ reqs[r].pc = "run"
    /\ LET i == currentIndex[DispatchOf(r)]
           rc == routeContexts[ContextOf(r)]
       IN IF i >= Len(ConcurrentList)
          THEN /\ reqs' = [reqs EXCEPT ![r].pc = "done",
                                       ![r].seen = Append(@, Observation(0, rc))]
               /\ UNCHANGED <<currentIndex, routeContexts>>
          ELSE LET c == ConcurrentList[i + 1]
                   found == IF c.kind = "router" THEN Match(c, "GET", rc.pending)
                            ELSE [found |-> FALSE]
                   pushed == [pending |-> Slice(rc.pending, Len(found.path)),
                              matches |-> Append(rc.matches, found.path)]
               IN /\ currentIndex' = [currentIndex EXCEPT ![DispatchOf(r)] = i + 1]
                  /\ IF c.kind = "user"
                     THEN /\ reqs' = [reqs EXCEPT
                                ![r].pc = "waiting",
                                ![r].seen = Append(@, Observation(c.id, rc))]
                          /\ UNCHANGED routeContexts
                     ELSE IF found.found
                     THEN /\ routeContexts' =
                                [routeContexts EXCEPT ![ContextOf(r)] = pushed]
                          /\ reqs' = [reqs EXCEPT
                                ![r].pc = "handler",
                                ![r].seen = Append(@,
                                    Observation(found.route.handler.id, pushed))]
                     ELSE UNCHANGED <<reqs, routeContexts>>
    /\ UNCHANGED varsNotConcurrent

\* the middleware of request r that waited goes on: it calls next, or settles
concurrentResume(r) ==
    /\ reqs[r].pc = "waiting"
    /\ LET id == reqs[r].seen[Len(reqs[r].seen)].id
       IN reqs' = [reqs EXCEPT ![r].pc = IF reqs[r].stops = id THEN "done" ELSE "run"]
    /\ UNCHANGED <<currentIndex, routeContexts, varsNotConcurrent>>

\* the route handler of request r that waited goes on: it calls next
\* (nextHandler pops the match and calls the router's next) or settles
\* (resetIfNeeded pops the match)
concurrentHandler(r) ==
    /\ reqs[r].pc = "handler"
    /\ LET id == reqs[r].seen[Len(reqs[r].seen)].id
           rc == routeContexts[ContextOf(r)]
           m == rc.matches[Len(rc.matches)]
       IN /\ routeContexts' = [routeContexts EXCEPT
                ![ContextOf(r)] = [pending |-> m \o rc.pending,
                                   matches |-> SubSeq(rc.matches, 1, Len(rc.matches) - 1)]]
          /\ reqs' = [reqs EXCEPT ![r].pc = IF reqs[r].stops = id THEN "done" ELSE "run"]
    /\ UNCHANGED <<currentIndex, varsNotConcurrent>>

NextConcurrent ==
    \/ \E r \in 1..MaxConcurrent : concurrentListener(r)
    \/ \E r \in 1..MaxConcurrent : concurrentRun(r)
    \/ \E r \in 1..MaxConcurrent : concurrentResume(r)
    \/ \E r \in 1..MaxConcurrent : concurrentHandler(r)

SpecConcurrent == InitConcurrent /\ [][NextConcurrent]_vars

RECURSIVE AloneFrom(_, _, _)
\* what a request for path with the given stop sees from middleware i of the
\* list on when no other request is being served
AloneFrom(i, path, stop) ==
    IF i > Len(ConcurrentList)
    THEN <<[id |-> 0, pending |-> path, depth |-> 0]>>
    ELSE LET c == ConcurrentList[i]
             found == IF c.kind = "router" THEN Match(c, "GET", path)
                      ELSE [found |-> FALSE]
             id == IF c.kind = "user" THEN c.id ELSE found.route.handler.id
         IN IF c.kind = "router" /\ ~found.found THEN AloneFrom(i + 1, path, stop)
            ELSE <<[id |-> id,
                    pending |-> IF c.kind = "user" THEN path
                                ELSE Slice(path, Len(found.path)),
                    depth |-> IF c.kind = "user" THEN 0 ELSE 1]>>
                 \o (IF stop = id THEN <<>> ELSE AloneFrom(i + 1, path, stop))
Alone(r) == AloneFrom(1, reqs[r].path, reqs[r].stops)

\* C35: whatever the order in which the requests take their steps, what a
\* request has seen so far - the middlewares that started for it, with the
\* pending path and the number of matches each of them found - is the
\* beginning of what it sees when it is served alone, and all of it once the
\* request is through.
C35_RequestsDoNotInterfere ==
    \A r \in 1..MaxConcurrent :
        /\ Len(reqs[r].seen) <= Len(Alone(r))
        /\ reqs[r].seen = SubSeq(Alone(r), 1, Len(reqs[r].seen))
        /\ reqs[r].pc = "done" => reqs[r].seen = Alone(r)

\* the handler of /a (request 1) waits with its match pushed, while request 2,
\* for /, which came later, waits in the first middleware
C35_Witness ==
    /\ reqs[1].path = <<"/", "a">>
    /\ reqs[1].pc = "handler"
    /\ reqs[2].path = <<"/">>
    /\ reqs[2].pc = "waiting"
    /\ Len(reqs[2].seen) = 1
    /\ currentIndex[DispatchOf(1)] = 2
    /\ currentIndex[DispatchOf(2)] = 1
    /\ Len(routeContexts[ContextOf(1)].matches) = 1
    /\ routeContexts[ContextOf(2)].matches = <<>>

(***************************************************************************)
(* Building a router: Router.define (router.ts:181-205).                   *)
(***************************************************************************)
\* descriptors one router may hold
MaxRoutes == 2

\* regexp.source: the pattern without its flags
Source(rx) ==
    [lit |-> rx.lit, anchored |-> rx.anchored, param |-> rx.param,
     boundary |-> rx.boundary, endAnchor |-> rx.endAnchor]
\* the pattern with the flag i: a literal /.../i
IgnoreCase(rx) == [rx EXCEPT !.flags = "i"]

\* the routes define is called with, and the keys pathToRegexp finds in them
\* (-1: a RegExp, for which paramKeys is null):
\* "/a", "/:id", /a$/, /a$/i
DefineRoutes ==
    {[test |-> StringRoute(<<"/", "a">>), paramKeys |-> 0],
     [test |-> ParamRoute(<<"/">>), paramKeys |-> 1],
     [test |-> SuffixRegExp(<<"a">>), paramKeys |-> -1],
     [test |-> IgnoreCase(SuffixRegExp(<<"a">>)), paramKeys |-> -1]}
DefineMethods == {"GET", "POST"}
DefineHandlers == {User(1), User(2)}

\* routes.find(x => x.test.source === route.source): the indices that qualify
FindBySource(routes, route) ==
    {d \in 1..Len(routes) : Source(routes[d].test) = Source(route)}

\* as DefineRegExpRoute, but a descriptor is added on every call
DefineRegExpRouteAppend(routes, route, m, handler, paramKeys) ==
    Append(routes, RouteDescriptor(route, m :> RouteDefinition(handler, paramKeys)))

\* _defineRegExpRoute(route, method, handler, path, paramKeys): the routes
\* after it
DefineRegExpRoute(routes, route, m, handler, paramKeys) ==
    LET hits == FindBySource(routes, route)
        definition == RouteDefinition(handler, paramKeys)
    IN IF hits = {}
       THEN Append(routes, RouteDescriptor(route, m :> definition))
       ELSE LET d == CHOOSE h \in hits : \A g \in hits : h <= g
            IN [routes EXCEPT ![d].definitions = (m :> definition) @@ @]

\* define was called before with a route of this source and this method:
\* the definition it made is there, nothing ever removes one
Issued(routes, route, m) ==
    \E d \in FindBySource(routes, route) : m \in DOMAIN routes[d].definitions

InitDefine ==
    /\ InitManager
    /\ NoRequest

\* a value whose typeof is not "function": undefined, an object, a string
NotAFunction == [kind |-> "value"]
\* the registrations tried with a handler and with something else:
\* routes "/a" and /a$/, a middleware or a value that is no function
RegisterRoutes ==
    {[test |-> StringRoute(<<"/", "a">>), paramKeys |-> 0],
     [test |-> SuffixRegExp(<<"a">>), paramKeys |-> -1]}
RegisterArguments == {User(1), NotAFunction}

\* no check at all: every value passes for a handler
IsFunctionUnchecked(handler) == TRUE

\* typeof handler === "function"
IsFunction(handler) == handler.kind # "value"

\* HttpMethod.ActionMethods, the part of it in DefineMethods
ActionMethods == <<"GET", "POST">>

\* successive define(route, ms[i], handler) calls from i on: the routes after
\* them
RECURSIVE DefineEach(_, _, _, _, _, _)
DefineEach(routes, route, ms, i, handler, paramKeys) ==
    IF i > Len(ms) THEN routes
    ELSE DefineEach(DefineRegExpRoute(routes, route, ms[i], handler, paramKeys),
                    route, ms, i + 1, handler, paramKeys)

\* define(route, m, handler) for each m of ms in turn.
\* The first call throws a TypeError before anything is touched when the
\* handler is not a function, and the forEach of all stops with it.
Define(input, ms, handler) ==
    /\ IF IsFunction(handler)
       THEN /\ \/ Len(definedRoutes) < MaxRoutes
               \/ FindBySource(definedRoutes, input.test) # {}
            /\ definedRoutes' = DefineEach(definedRoutes, input.test, ms, 1,
                                           handler, input.paramKeys)
            /\ Len(definedRoutes') <= MaxRoutes
       ELSE definedRoutes' = definedRoutes
    /\ lastDefine' = [done |-> TRUE,
                      threw |-> ~IsFunction(handler),
                      before |-> definedRoutes,
                      again |-> /\ Len(ms) = 1
                                /\ Issued(definedRoutes, input.test, ms[1]),
                      test |-> input.test, methods |-> {ms[i] : i \in 1..Len(ms)},
                      handler |-> handler]
    /\ UNCHANGED <<stack, ret, fixedReq, mountCtx, routeCtx, log, lastExit,
                   varsApp, varsSM, varsOther>>

\* router.define(route, m, handler)
define(input, m, handler) == Define(input, <<m>>, handler)

\* router.get(route, handler), router.post(route, handler), ...:
\* this.define(route, HttpMethod.Get, handler, opts)
verb(input, m, handler) == Define(input, <<m>>, handler)

\* router.any(route, handler): this.define(route, HttpMethod.Wildcard, handler)
any(input, handler) == Define(input, <<Wildcard>>, handler)

\* router.all(route, handler):
\* HttpMethod.ActionMethods.forEach(x => this.define(route, x, handler))
all(input, handler) == Define(input, ActionMethods, handler)

\* router.use(path, x) with a string or a RegExp first: this.any(first, h),
\* h being x unless x is a Router
use(input, x) == Define(input, <<Wildcard>>, x)

NextDefine ==
    \E input \in DefineRoutes, m \in DefineMethods, handler \in DefineHandlers :
        define(input, m, handler)

SpecDefine == InitDefine /\ [][NextDefine]_vars

\* every way of registering a route, with a handler or with something else
NextRegister ==
    \E input \in RegisterRoutes, handler \in RegisterArguments :
        \/ \E m \in DefineMethods : define(input, m, handler)
        \/ \E m \in DefineMethods : verb(input, m, handler)
        \/ any(input, handler)
        \/ all(input, handler)
        \/ use(input, handler)

SpecRegister == InitDefine /\ [][NextRegister]_vars

C21_NonFunctionThrows ==
    lastDefine.done =>
        /\ lastDefine.threw <=> lastDefine.handler = NotAFunction
        /\ lastDefine.threw => definedRoutes = lastDefine.before

\* all(route, x) with x not a function has thrown on a router that already
\* holds a route of that pattern
C21_Witness ==
    /\ lastDefine.done
    /\ lastDefine.threw
    /\ lastDefine.methods = {"GET", "POST"}
    /\ FindBySource(definedRoutes, lastDefine.test) # {}

\* any(path, x) or use(path, x) with x not a function has thrown on a router
\* with a route
C21_WitnessUse ==
    /\ lastDefine.done
    /\ lastDefine.threw
    /\ lastDefine.methods = {Wildcard}
    /\ Len(definedRoutes) = 1

(***************************************************************************)
(* Claims about the request pipeline, checked under SpecReq.               *)
(***************************************************************************)

\* C1: whenever an invocation of a mount whose prefix matched is left -
\* the target resolved without calling next, called next, or failed - the
\* restoring assignment has run exactly once in that invocation, and the
\* route path is again the value it had when the mount was entered (asked of
\* a mount that is not inside another one: inside another mount, a target
\* that calls next has the enclosing mount restore its own, longer, path).
C1_MountRestoresPath ==
    lastExit.kind = "mount" =>
        /\ lastExit.outermost => lastExit.after = lastExit.before
        /\ lastExit.resets = 1

\* C2: whenever an invocation of a router that matched a route is left -
\* the handler called next, resolved without calling it, or failed - the
\* match it pushed has been popped exactly once, so the route context holds
\* as many matches as when the router was entered (asked of a router that is
\* not the handler of another one, whose match a call of next pops as well).
C2_MatchPoppedOnce ==
    lastExit.kind = "router" =>
        /\ lastExit.resets = 1
        /\ lastExit.outermost => lastExit.depthAfter = lastExit.depthBefore

RECURSIVE ConsumedPath(_)
\* the consumed segments of the matches on the route context, concatenated
ConsumedPath(ms) ==
    IF ms = <<>> THEN <<>> ELSE ConsumedPath(SubSeq(ms, 1, Len(ms) - 1)) \o ms[Len(ms)].path

\* C3: the pending path is the request path with the consumed segments of
\* the pushed matches removed from its front, and a pop() restores the
\* pending path and the current match to what they were before the push it
\* undoes.
C3_PendingPathInvariant ==
    /\ ConsumedPath(matches) \o pendingRoutePath = reqPath
    /\ lastPop.done =>
          /\ lastPop.poppedTo = lastPop.pushedAt
          /\ lastPop.curAfter = lastPop.curBefore

\* C27: when the middleware of a mount is called and the route path starts
\* with the mount's prefix, the route path the target reads is the one the
\* mount read with the prefix removed from its front, also when nothing is
\* left of it; when it does not start with the prefix the mount calls its
\* next and the context's route path is not assigned.
C27_TargetSeesStrippedPath ==
    [][At("mount", "start") =>
          LET targetPath == MountTargetPath(Top.node.path)
          IN IF StartsWith(getRoutePath, targetPath)
             THEN /\ stack'[Len(stack')].node = Top.node.target
                  /\ getRoutePath' = Slice(getRoutePath, Len(targetPath))
             ELSE /\ stack'[Len(stack')] = ContFrame(Top.next)
                  /\ routePath' = routePath]_vars

\* the invocations of mount whose target is running and has not called the
\* next the mount handed to it
ActiveMounts ==
    {o \in 1..Len(stack) :
        /\ stack[o].t = "mount"
        /\ stack[o].pc = "called"
        /\ ~\E j \in (o + 1)..Len(stack) :
               stack[j].t = "mountNext" /\ stack[j].owner = o}

\* the route path a middleware that starts now is to read: the request path
\* outside every mount, the rewritten path of the innermost mount inside one
PathInScope ==
    IF ActiveMounts = {} THEN reqPath
    ELSE LET o == CHOOSE a \in ActiveMounts : \A b \in ActiveMounts : b <= a
             rest == MountDecision(stack[o].node.path, stack[o].saved).rewritten
         IN IF rest = <<>> THEN reqPath ELSE rest

\* C25: whenever a middleware, a mount or the terminal next starts, the route
\* path it reads is the path of its own scope: once the target of a mount has
\* called its next, everything that next starts reads the path the mount
\* found when it was entered, for the outermost mount the request path, and
\* never the path rewritten for the target.
C25_RestoredBeforeOuterNext ==
    (Len(stack) > 0 /\ Top.pc = "start" /\ Top.t \in {"user", "terminal", "mount"})
        => getRoutePath = PathInScope

\* compose(mount('/a', u1), u2), request /a/a: u1 has called next and u2 is
\* about to start, with the mount's own promise still pending
C25_Witness ==
    /\ Len(stack) > 0
    /\ Top.pc = "start"
    /\ Top.node = User(2)
    /\ reqPath = <<"/", "a", "/", "a">>
    /\ \E o \in 1..Len(stack), j \in 1..Len(stack) :
          /\ stack[o].t = "mount"
          /\ stack[o].pc = "called"
          /\ stack[o].saved = reqPath
          /\ stack[o].node.path = <<"/", "a">>
          /\ stack[j].t = "mountNext"
          /\ stack[j].owner = o
    /\ getRoutePath = reqPath

\* C29: when the target of a mount whose prefix matched, or the handler of a
\* route a router matched, has failed - with a rejected promise or with an
\* exception thrown before a promise exists - the mount or router is left
\* with that same failure, and by then its restoring assignment, or the pop
\* of its match, has been performed.
C29_FailurePropagatesAfterCleanup ==
    [][((At("mount", "called") \/ At("router", "called"))
        /\ ret \in {"rejected", "thrown"}) =>
          /\ ret' = ret
          /\ stack' = Leave(stack)
          /\ lastExit'.outcome = ret
          /\ lastExit'.resets = 1]_vars

\* C22: when routeHandler is called on a context whose routeHandled flag is
\* set, it returns a resolved promise at once: no match is attempted or
\* pushed, no middleware or handler is started and next is not called.
C22_HandledShortCircuits ==
    [][(At("router", "start") /\ routeHandled) =>
          /\ stack' = Leave(stack)
          /\ ret' = "resolved"
          /\ matches' = matches
          /\ pendingRoutePath' = pendingRoutePath]_vars

\* C23: when routeHandler finds a match, the match is on the route context
\* and routeHandled is set before anything the router calls has started; an
\* invocation that finds no match leaves routeHandled as it was.
C23_MatchMarksHandled ==
    [][At("router", "start") =>
          IF Len(stack') > Len(stack) /\ stack'[Len(stack)].pc = "called"
          THEN /\ Len(matches') = Len(matches) + 1
               /\ currentMatch' = matches'[Len(matches')]
               /\ routeHandled'
          ELSE routeHandled' = routeHandled]_vars

\* the ids of the middlewares that have started, u1 the handler left out
StartedMiddlewares ==
    SelectSeq([i \in 1..Len(log) |-> log[i].id], LAMBDA id : id > 1)

\* C24: a router that has attempted its match has run its own middlewares
\* before: whenever an invocation of a router with middlewares holds a match,
\* all its middlewares have started, in registration order.
C24_MiddlewaresBeforeMatch ==
    \A o \in 1..Len(stack) :
        (stack[o].t = "router" /\ stack[o].pc = "called"
         /\ stack[o].node.middlewares # <<>>) =>
            StartedMiddlewares = [i \in 1..Len(stack[o].node.middlewares) |->
                                     stack[o].node.middlewares[i].id]

\* C26: for /chain containing /c1 containing router2 with GET /hello and the
\* request /chain/c1/hello, the request reaches the handler of router2's
\* route (the application's terminal next is not called unless that handler
\* ran), the pending path is /hello when that handler starts, and once the
\* outermost middleware has resolved the route context holds no match and
\* the pending path is the request path.
C26_NestedPendingPath ==
    prog \in NestedPrograms =>
        /\ (Len(stack) > 0 /\ Top.t = "terminal") =>
               \E i \in 1..Len(log) : log[i].id = 1
        /\ (Len(stack) > 0 /\ Top.pc = "start" /\ Top.node = User(1)) =>
               pendingRoutePath = <<"/", "a", "a", "a">>
        /\ (stack = <<>> /\ ret = "resolved") =>
               /\ matches = <<>>
               /\ pendingRoutePath = reqPath

\* the router on top of the stack is being called and no route matches
Unmatched ==
    /\ At("router", "start")
    /\ ~Match(Top.node, method, pendingRoutePath).thrown
    /\ ~Match(Top.node, method, pendingRoutePath).found

\* C34: a router that is called and finds no match leaves the match stack,
\* the current match and the pending path as they are and calls its own
\* middlewares with its next as theirs, or its next when it has none; and a
\* request to a router on which no match was ever pushed ends with an empty
\* match stack and the request path pending, the terminal next having run
\* after the router's middlewares and before anything else.
C34_UnmatchedFallsThrough ==
    /\ [][Unmatched =>
            /\ UNCHANGED routeCtx
            /\ Len(stack') = Len(stack) + 1
            /\ stack'[Len(stack')] =
                  IF Len(Top.node.middlewares) > 0
                  THEN DispatchFrame(Top.node.middlewares, Top.next)
                  ELSE ContFrame(Top.next)]_vars
    /\ []((prog.kind = "router" /\ matchCount = 0) =>
            /\ matches = <<>> /\ currentMatch = NoMatch /\ pendingRoutePath = reqPath
            /\ \A i \in 1..Len(log) :
                  log[i].id = 0 => i = Len(prog.middlewares) + 1
            /\ (stack = <<>> /\ Len(prog.middlewares) = 0) =>
                  \/ log = <<>> /\ ret = "thrown"
                  \/ Len(log) = 1 /\ log[1].id = 0 /\ ret = log[1].beh)

\* router.use(u2).use(u3).get("/:id", u1), a request nothing matches: u2 and
\* u3 called next, the terminal next ran, nothing was pushed
C34_Witness ==
    /\ prog = MiddlewareRouter
    /\ stack = <<>>
    /\ matchCount = 0
    /\ Len(log) = 3
    /\ log[1].id = 2 /\ log[2].id = 3 /\ log[3].id = 0
    /\ matches = <<>>
    /\ pendingRoutePath = reqPath
    /\ currentMatch = NoMatch

\* a router without middlewares, no match: the terminal next ran
C34_WitnessPlain ==
    /\ prog.kind = "router"
    /\ Len(prog.middlewares) = 0
    /\ stack = <<>>
    /\ matchCount = 0
    /\ log = <<[id |-> 0, beh |-> "resolved"]>>
    /\ pendingRoutePath = reqPath

\* a router invocation unwinds: resetIfNeeded runs, in nextHandler or in the
\* callbacks of .then(resetIfNeeded).catch(errorHandler)
Unwinding ==
    \/ At("nextHandler", "start")
    \/ At("router", "called") /\ ret \in {"resolved", "rejected"}
\* the frame of the router invocation that unwinds
Unwinder == IF At("nextHandler", "start") THEN Top.owner ELSE Len(stack)

\* C39: the match stack shrinks only when a router invocation unwinds, by the
\* one match on top, which is the match that invocation pushed; an invocation
\* whose match is not the current match when it unwinds leaves the stack as
\* it is; pop runs on a stack that is not empty; and the pop of an invocation
\* leaves the stack as deep as it was when that invocation was entered, never
\* less.
C39_PopsOnlyOwnMatch ==
    [][/\ Len(matches') < Len(matches) =>
            /\ Unwinding
            /\ Len(matches) > 0
            /\ matches[Len(matches)].id = stack[Unwinder].match.id
            /\ matches' = SubSeq(matches, 1, Len(matches) - 1)
            /\ Len(matches') = stack[Unwinder].depth
       /\ (Unwinding /\ currentMatch.id # stack[Unwinder].match.id) =>
            UNCHANGED matches
       /\ (Unwinding /\ Popping(Unwinder)) => Len(matches) > 0]_vars

\* router.use(u2).use("/a", new Router().get("/:id", u1)), GET /a/a: u2 awaits
\* next, u1 throws; the inner router left its match on the stack, the outer
\* one unwound on the rejection with a match on top that is not its own and
\* popped nothing
C39_Witness ==
    /\ prog = GuardedNest
    /\ stack = <<>>
    /\ ret = "rejected"
    /\ Len(matches) = 2
    /\ lastExit.kind = "router"
    /\ lastExit.outcome = "rejected"
    /\ lastExit.resets = 0
    /\ lastExit.depthBefore = 0
    /\ lastExit.depthAfter = 2

\* Context.getRouteParams(): getRouteContext().params
getRouteParams == params

\* the last segment of the request path of the nested parameter routers
LastSegment ==
    IF reqPath = <<"/", "a", "/", "a", "a">> THEN <<"a", "a">> ELSE <<"a">>

\* C40: a step that pops a match puts the path of that match back in front
\* of the pending path, makes the match below the current one and leaves the
\* parameters of the route context as they are; a step that pushes one merges
\* its parameters in, a later value replacing an earlier one of the same name;
\* and when u2 starts behind router.use("/:id", new Router().get("/:id", u1)),
\* both matches popped, it reads id as the inner router set it.
C40_ParamsSurvivePop ==
    /\ [][/\ Len(matches') < Len(matches) =>
               /\ getRouteParams' = getRouteParams
               /\ pendingRoutePath' = matches[Len(matches)].path \o pendingRoutePath
               /\ currentMatch' = IF Len(matches') > 0 THEN matches'[Len(matches')]
                                  ELSE NoMatch
          /\ Len(matches') > Len(matches) =>
               LET match == matches'[Len(matches')]
               IN match.route.paramKeys >= 0 =>
                     /\ ~getRouteParams'.null
                     /\ \A i \in 1..Len(match.params) :
                           \E j \in 1..Len(getRouteParams'.entries) :
                               getRouteParams'.entries[j] = match.params[i]
                     /\ \A j, k \in 1..Len(getRouteParams'.entries) :
                           getRouteParams'.entries[j].name
                               = getRouteParams'.entries[k].name => j = k]_vars
    /\ []((prog \in ParamsPrograms /\ Len(stack) > 0 /\ Top.pc = "start"
           /\ Top.node = User(2)) =>
             /\ matches = <<>>
             /\ pendingRoutePath = reqPath
             /\ getRouteParams =
                   [null |-> FALSE, entries |-> <<[name |-> "id", value |-> LastSegment]>>])

\* GET /a/aa: both routers matched and set id, u1 called next, both matches
\* were popped and u2 is about to start
C40_Witness ==
    /\ prog \in ParamsPrograms
    /\ reqPath = <<"/", "a", "/", "a", "a">>
    /\ Len(stack) > 0
    /\ Top.pc = "start"
    /\ Top.node = User(2)
    /\ matches = <<>>
    /\ matchCount = 2
    /\ lastPop.done
    /\ getRouteParams.entries = <<[name |-> "id", value |-> <<"a", "a">>]>>

\* the id of the element that follows the twice-calling middleware in the
\* list of the program, 0 (the terminal next) when it is the last
Following ==
    LET l == prog.list
        k == CHOOSE j \in 1..Len(l) : l[j].kind = "again"
    IN IF k < Len(l) THEN l[k + 1].id ELSE 0

\* C33: whenever the twice-calling middleware has called its next - the first
\* time, or the second time after the middlewares behind it have run - what
\* is invoked is the element that follows it in the list (the terminal next
\* when it is the last).
C33_NextBoundToFollowing ==
    \A i \in 1..(Len(log) - 1) :
        (log[i].id = 1 /\ prog \in AgainPrograms) => log[i + 1].id = Following

\* as C33, for the lists composed by the compose of part_009 only
C33_ComposeBound ==
    prog.kind = "compose" => C33_NextBoundToFollowing

\* the middleware with this id has started
Started(id) == \E i \in 1..Len(log) : log[i].id = id

\* C32: for compose(mount(p, u1), u2): when u1 has marked the route as
\* handled and called its next, u2 - the outer next of the mount - is never
\* started, and the mount resolves with the route path restored; when u1 has
\* called its next with routeHandled false, u2 has been started by the time
\* the request is through.
C32_HandledStopsAtMount ==
    \A p \in MountPaths :
        (prog = Compose(<<Mount(p, User(1)), User(2)>>) /\ Len(log) > 0
         /\ log[1].id = 1) =>
            /\ log[1].beh = "markNext" =>
                  /\ ~Started(2)
                  /\ stack = <<>> => (ret = "resolved" /\ getRoutePath = reqPath)
            /\ (log[1].beh \in {"next", "awaitNext"} /\ stack = <<>>) => Started(2)

\* compose(mount('/a', u1), u2), request /a/a: u1 marked the route handled
\* and called next, the mount resolved and nothing else ran
C32_Witness ==
    /\ prog = Compose(<<Mount(<<"/", "a">>, User(1)), User(2)>>)
    /\ reqPath = <<"/", "a", "/", "a">>
    /\ stack = <<>>
    /\ ret = "resolved"
    /\ routeHandled
    /\ log = <<[id |-> 1, beh |-> "markNext"]>>
    /\ lastExit.kind = "mount"
    /\ lastExit.resets = 1

\* the same mount path written the other way: with a trailing slash if it
\* has none, without it if it has one
OtherSpelling(path) ==
    IF Len(path) > 0 /\ path[Len(path)] = "/" THEN SubSeq(path, 1, Len(path) - 1)
    ELSE path \o <<"/">>

\* C28: whenever the middleware of mount(p, t) is called, mount(p', t), p'
\* being p with the trailing slash added or removed, decides the same for the
\* route path at hand - match or no match - and would hand the target the same
\* rewritten path, which is the path the mount at hand installs.
C28_TrailingSlashIrrelevant ==
    [][At("mount", "start") =>
          LET here == MountDecision(Top.node.path, getRoutePath)
              other == MountDecision(OtherSpelling(Top.node.path), getRoutePath)
          IN /\ here.match = other.match
             /\ here.match => here.rewritten = other.rewritten
             /\ IF other.match
                THEN /\ stack'[Len(stack')].node = Top.node.target
                     /\ routePath' = other.rewritten
                ELSE stack'[Len(stack')] = ContFrame(Top.next)]_vars

\* mount('/a/', t) has been entered with the route path '/a', which has no
\* slash after the prefix, and t is running on the empty rest
C28_Witness ==
    /\ Len(stack) > 1
    /\ stack[1].t = "mount"
    /\ stack[1].pc = "called"
    /\ stack[1].node.path = <<"/", "a", "/">>
    /\ stack[1].saved = <<"/", "a">>
    /\ routePath = <<>>

\* the ids of the middlewares in the order they started; 0 is the terminal next
LogIds == [i \in 1..Len(log) |-> log[i].id]
\* u1, ..., uk, then the terminal next
RegistrationOrder(k) == [i \in 1..(k + 1) |-> IF i <= k THEN i ELSE 0]
\* every middleware that has run called next
AllCalledNext == \A i \in 1..Len(log) : log[i].id # 0 => log[i].beh \in NextBehaviours

\* C10: the middlewares of compose(u1, ..., uN) start in registration
\* order, none twice and the terminal next not before all N have started,
\* and when each of them calls next, all N have run and the terminal next
\* has run exactly once, after them, by the time the chain returns.
C10_ComposeOrder ==
    prog \in ChainPrograms =>
        /\ Len(log) <= Len(prog.list) + 1
        /\ LogIds = SubSeq(RegistrationOrder(Len(prog.list)), 1, Len(log))
        /\ (stack = <<>> /\ AllCalledNext) =>
              LogIds = RegistrationOrder(Len(prog.list))

C10_Witness ==
    /\ prog \in ChainPrograms
    /\ Len(prog.list) >= 2
    /\ stack = <<>>
    /\ AllCalledNext
    /\ LogIds = RegistrationOrder(Len(prog.list))

\* C11: in a composed chain, once a middleware has run without calling next
\* (it resolved, rejected or threw), nothing runs after it: no middleware of
\* a greater index and not the terminal next.
C11_ShortCircuit ==
    prog \in ChainPrograms =>
        \A i \in 1..Len(log) :
            (log[i].id # 0 /\ log[i].beh \notin NextBehaviours) => i = Len(log)

\* the request is over, and a middleware that is not the last of its chain
\* resolved without calling next
C11_Witness ==
    /\ prog \in ChainPrograms
    /\ stack = <<>>
    /\ Len(log) > 0
    /\ log[Len(log)].beh = "resolve"
    /\ log[Len(log)].id # 0
    /\ log[Len(log)].id < Len(prog.list)

\* C12: in a composed chain, once a middleware has returned a rejected
\* promise no further middleware and no terminal next is started, and the
\* promise the composed middleware returns is rejected.
C12_RejectionPropagates ==
    prog \in ChainPrograms =>
        \A i \in 1..Len(log) :
            (log[i].id # 0 /\ log[i].beh = "reject") =>
                /\ i = Len(log)
                /\ stack = <<>> => ret = "rejected"

\* the request is over: a middleware that is neither the first nor the last
\* of its chain rejected, behind one that awaited next
C12_Witness ==
    /\ prog \in ChainPrograms
    /\ stack = <<>>
    /\ ret = "rejected"
    /\ Len(log) > 1
    /\ log[Len(log)].beh = "reject"
    /\ log[Len(log)].id > 1
    /\ log[Len(log)].id < Len(prog.list)
    /\ log[1].beh = "awaitNext"


\* the descriptors of router whose pattern matches path
StructuralMatches(router, path) ==
    {d \in 1..Len(router.routes) : RegExpMatch(router.routes[d].test, path).ok}

\* C16: the definition a router runs is, within the descriptor it matched,
\* the one of the exact method; else, for HEAD, the GET one; else the
\* wildcard one; and a router finds no match only if no descriptor whose
\* pattern matches the path has any of the three.
C16_MethodResolution ==
    prog \in RouterPrograms =>
        /\ Len(matches) >= 1 =>
              LET defs == prog.routes[matches[1].descriptor].definitions
              IN IF method \in DOMAIN defs THEN matches[1].route = defs[method]
                 ELSE IF method = "HEAD" /\ "GET" \in DOMAIN defs
                      THEN matches[1].route = defs["GET"]
                 ELSE /\ Wildcard \in DOMAIN defs
                      /\ matches[1].route = defs[Wildcard]
        /\ (Len(stack) >= 1 /\ stack[1].t = "router" /\ stack[1].pc = "tail") =>
              \A d \in StructuralMatches(prog, reqPath) :
                  LET defs == prog.routes[d].definitions
                  IN /\ method \notin DOMAIN defs
                     /\ ~(method = "HEAD" /\ "GET" \in DOMAIN defs)
                     /\ Wildcard \notin DOMAIN defs

\* a HEAD request for a path that has a GET and a wildcard definition runs
\* the GET handler
C16_Witness ==
    /\ prog = MethodRouter
    /\ method = "HEAD"
    /\ Len(matches) = 1
    /\ matches[1].route.handler = User(1)
    /\ Len(log) = 1
    /\ log[1].id = 1

\* C17: the match a router pushes comes from the earliest-registered
\* descriptor whose pattern matches the path, never from a later one.
C17_FirstStructuralMatch ==
    (prog \in RouterPrograms /\ Len(matches) >= 1) =>
        \A d \in StructuralMatches(prog, reqPath) : matches[1].descriptor <= d

\* C18: with GET "/a" -> u1 and GET "/aa" -> u2, GET "/a" runs u1 and never
\* u2, GET "/aa" runs u2 and never u1, and POST "/a" runs neither: the router
\* calls next.
C18_HelloRoutes ==
    (prog = HelloRouter /\ Len(log) >= 1) =>
        /\ (method = "GET" /\ reqPath = <<"/", "a">>) =>
              log[1].id = 1 /\ \A i \in 1..Len(log) : log[i].id # 2
        /\ (method = "GET" /\ reqPath = <<"/", "a", "a">>) =>
              log[1].id = 2 /\ \A i \in 1..Len(log) : log[i].id # 1
        /\ (method = "POST" /\ reqPath = <<"/", "a">>) =>
              \A i \in 1..Len(log) : log[i].id = 0

\* GET "/aa" has run u2, which called next, and the terminal next ran
C18_Witness ==
    /\ prog = HelloRouter
    /\ method = "GET"
    /\ reqPath = <<"/", "a", "a">>
    /\ stack = <<>>
    /\ LogIds = <<2, 0>>

\* POST "/a" went to the terminal next
C18_WitnessNoMatch ==
    /\ prog = HelloRouter
    /\ method = "POST"
    /\ reqPath = <<"/", "a">>
    /\ stack = <<>>
    /\ LogIds = <<0>>


====
